---- MODULE Spec2Model ----
(***************************************************************************)
(* Garment classification with optional Redis caching                      *)
(* (backend/services/garment.py, backend/core/redis.py).                   *)
(*                                                                         *)
(* Each process runs a single-threaded cooperative event loop: a call runs *)
(* from one await to the next without interleaving with the other calls of *)
(* its process (running[p] names the call that currently runs).  Processes *)
(* share only the remote store, whose operations are atomic.               *)
(*                                                                         *)
(* Time is abstract: a TTL, a deadline or a backoff elapses by an action   *)
(* of its own, at any moment after it was armed.                           *)
(***************************************************************************)
EXTENDS Naturals, Integers, Sequences, FiniteSets, TLC

NumCallers == 2
MaxFaults == 1
MaxTimeouts == 1
MaxSleeps == 2
REDIS_OPERATION_RETRIES == 1

Callers == 1..NumCallers
Procs == {1, 2}
Digests == {"abc123"}

VARIABLES
    GARMENT_TYPE_CLASSIFY,      \* config.py: feature flag
    GARMENT_TYPE_TTL_SECONDS,   \* config.py: entry TTL
    REDIS_URL,                  \* config.py, per process: "" when unconfigured
    store_cache,                \* remote store: value key of a digest -> stored type text, <<>> absent
    store_lock,                 \* remote store: lock key of a digest -> token, 0 absent
    _redis_client,              \* redis.py, per process: shared handle, 0 is None
    _redis_retry_at,            \* redis.py, per process: "None", "future" (now < retry_at), "past"
    _redis_connect_lock,        \* redis.py, per process: asyncio.Lock
    _garment_type_cache,        \* garment.py, per process: L1 map digest -> type, <<>> absent or expired
    _local_singleflight_locks,  \* garment.py, per process: digest -> asyncio.Lock
    running,                    \* per process: the call that runs now, 0 when all are suspended
    call,                       \* per call: position and locals of classify_garment_type
    classifier_calls,           \* per digest: invocations of the classifier since the entry last expired
    remote_writes,              \* per digest: SETs of the entry applied since it last expired
    history,                    \* what elapsed during a call: "deadline", "lock_expired", "entry_expired"
    faults,                     \* the remote operations that had a failed attempt so far
    timeouts,                   \* the TTLs, deadlines and backoffs that elapsed so far
    GARMENT_TYPE_CACHE_VERSION, \* config.py, per process: the version in the keys
    MODEL,                      \* config.py: the model id stored in the entries
    keyspace,                   \* remote store by key: key -> stored string
    wrote,                      \* by key: what the stored string was written as, and by which version
    answered,                   \* the reply of the last read or lock acquire on the keyspace
    listings,                   \* db: table listings, id -> row (user_id, source_s3_key) or no row
    context,                    \* editing.py: the last call of resolve_listing_context and its outcome
    inputs,                     \* editing.py: the last call of normalize_edit_inputs and its result
    subscription,               \* db: the user's latest Subscription row, or none
    plan,                       \* db: the SubscriptionPlan row of the subscription's plan_id, or none
    usage,                      \* db: table usage_counters of the user, period_start -> row or none
    now,                        \* usage.py: _now_utc()
    summary                     \* usage.py: the last call of consume_quota and its outcome

vars == << GARMENT_TYPE_CLASSIFY, GARMENT_TYPE_TTL_SECONDS, REDIS_URL, store_cache,
           store_lock, _redis_client, _redis_retry_at, _redis_connect_lock,
           _garment_type_cache, _local_singleflight_locks, running, call,
           classifier_calls, remote_writes, history, faults, timeouts,
           GARMENT_TYPE_CACHE_VERSION, MODEL, keyspace, wrote, answered,
           listings, context, inputs, subscription, plan, usage, now, summary >>

config == << GARMENT_TYPE_CLASSIFY, GARMENT_TYPE_TTL_SECONDS, REDIS_URL >>
store == << store_cache, store_lock >>
supervisor == << _redis_client, _redis_retry_at, _redis_connect_lock >>
observed == << classifier_calls, remote_writes, history, faults, timeouts >>
counters == << classifier_calls, remote_writes, history, timeouts >>
services == << listings, context, inputs, subscription, plan, usage, now, summary >>
keyed == << GARMENT_TYPE_CACHE_VERSION, MODEL, keyspace, wrote, answered, services >>

-----------------------------------------------------------------------------
(* Text: a string is a sequence of characters.                             *)

TOP == <<"t","o","p">>
BOTTOM == <<"b","o","t","t","o","m">>
FULL == <<"f","u","l","l">>
Labels == {TOP, BOTTOM, FULL}

FullKeywords ==
    { <<"d","r","e","s","s">>,
      <<"j","u","m","p","s","u","i","t">>,
      <<"r","o","m","p","e","r">>,
      <<"b","o","i","l","e","r","s","u","i","t">>,
      <<"o","v","e","r","a","l","l","s">>,
      <<"p","i","n","a","f","o","r","e">>,
      <<"c","a","t","s","u","i","t">>,
      <<"u","n","i","t","a","r","d">>,
      <<"o","n","e","-","p","i","e","c","e">>,
      <<"o","n","e"," ","p","i","e","c","e">> }

BottomKeywords ==
    { <<"j","e","a","n","s">>,
      <<"p","a","n","t","s">>,
      <<"t","r","o","u","s","e","r","s">>,
      <<"s","h","o","r","t","s">>,
      <<"s","k","i","r","t">>,
      <<"l","e","g","g","i","n","g","s">>,
      <<"b","o","t","t","o","m">> }

TopKeywords ==
    { <<"t","-","s","h","i","r","t">>,
      <<"t","s","h","i","r","t">>,
      <<"s","h","i","r","t">>,
      <<"b","l","o","u","s","e">>,
      <<"s","w","e","a","t","e","r">>,
      <<"j","u","m","p","e","r">>,
      <<"h","o","o","d","i","e">>,
      <<"c","a","r","d","i","g","a","n">>,
      <<"j","a","c","k","e","t">>,
      <<"c","o","a","t">>,
      <<"v","e","s","t">>,
      <<"b","o","d","y","s","u","i","t">>,
      <<"t","o","p">> }

\* str.lower() on the characters the inputs use
LowerChar(ch) ==
    CASE ch = "D" -> "d"
      [] ch = "J" -> "j"
      [] ch = "L" -> "l"
      [] ch = "M" -> "m"
      [] ch = "S" -> "s"
      [] ch = "T" -> "t"
      [] ch = "W" -> "w"
      [] OTHER -> ch

Lower(s) == [i \in 1..Len(s) |-> LowerChar(s[i])]

RECURSIVE LStrip(_)
LStrip(s) == IF s # <<>> /\ Head(s) = " " THEN LStrip(Tail(s)) ELSE s

RECURSIVE RStrip(_)
RStrip(s) == IF s # <<>> /\ s[Len(s)] = " " THEN RStrip(SubSeq(s, 1, Len(s) - 1)) ELSE s

\* str.strip()
Strip(s) == RStrip(LStrip(s))

\* k in s
Contains(s, k) ==
    \E i \in 1..(Len(s) - Len(k) + 1) : SubSeq(s, i, i + Len(k) - 1) = k

\* garment.py _normalize_garment_type; <<>> is None
_normalize_garment_type(label) ==
    LET s == Lower(Strip(label)) IN
    IF s \in Labels THEN s
    ELSE IF \E k \in FullKeywords : Contains(s, k) THEN FULL
    ELSE IF \E k \in BottomKeywords : Contains(s, k) THEN BOTTOM
    ELSE IF \E k \in TopKeywords : Contains(s, k) THEN TOP
    ELSE <<>>

\* the override values a caller passes; <<>> is None
Overrides ==
    { <<>>,
      <<"T","o","p">>,
      <<" ","D","r","e","s","s">>,
      <<"b","a","n","a","n","a">> }

\* the free text the external classifier answers
ClassifierTexts ==
    { <<"L","o","n","g"," ","S","l","e","e","v","e"," ","D","r","e","s","s">>,
      <<"J","e","a","n","s">>,
      <<"n","/","a">> }

-----------------------------------------------------------------------------
(* json.dumps and json.loads on the values the cache uses: objects whose   *)
(* members are strings, numbers and literals; printable ASCII without      *)
(* white space outside strings; in strings the escapes \" and \\.          *)

\* Python values: None, a str, a number (int or float, compared by value),
\* a bool, a dict as the sequence of its items in insertion order
PyNone == [kind |-> "None"]
PyStr(s) == [kind |-> "str", str |-> s]
PyNum(whole, frac) == [kind |-> "num", whole |-> whole, frac |-> frac]
PyBool(b) == [kind |-> "bool", bool |-> b]
PyDict(items) == [kind |-> "dict", items |-> items]

Digit == <<"0", "1", "2", "3", "4", "5", "6", "7", "8", "9">>
IsDigit(ch) == \E i \in 1..10 : Digit[i] = ch
DigitValue(ch) == (CHOOSE i \in 1..10 : Digit[i] = ch) - 1

\* str(n) for a natural number
RECURSIVE Decimal(_)
Decimal(n) == IF n < 10 THEN << Digit[n + 1] >> ELSE Decimal(n \div 10) \o << Digit[(n % 10) + 1] >>

\* json.dumps of a str: quotes, with " and \ escaped
RECURSIVE Escaped(_)
Escaped(s) ==
    IF s = <<>> THEN <<>>
    ELSE (IF Head(s) \in {"\"", "\\"} THEN << "\\", Head(s) >> ELSE << Head(s) >>)
            \o Escaped(Tail(s))

\* a string written between quotes as it is, nothing escaped
DumpStrUnescaped(s) == << "\"" >> \o s \o << "\"" >>

DumpStr(s) == << "\"" >> \o Escaped(s) \o << "\"" >>

\* repr of a float: the digits, a point, the fraction or 0
DumpNum(v) == Decimal(v.whole) \o << "." >> \o (IF v.frac = <<>> THEN << "0" >> ELSE v.frac)

DumpScalar(v) ==
    CASE v.kind = "str" -> DumpStr(v.str)
      [] v.kind = "num" -> DumpNum(v)
      [] v.kind = "bool" -> IF v.bool THEN <<"t","r","u","e">> ELSE <<"f","a","l","s","e">>
      [] OTHER -> <<"n","u","l","l">>

RECURSIVE DumpItems(_)
DumpItems(items) ==
    IF items = <<>> THEN <<>>
    ELSE DumpStr(Head(items)[1]) \o << ":" >> \o DumpScalar(Head(items)[2])
            \o (IF Tail(items) = <<>> THEN <<>> ELSE << "," >> \o DumpItems(Tail(items)))

\* json.dumps(payload, ensure_ascii=True, separators=(",", ":"))
json_dumps(v) ==
    IF v.kind = "dict" THEN << "{" >> \o DumpItems(v.items) \o << "}" >> ELSE DumpScalar(v)

\* the result of a parsing step: the value and the position after it
Parsed(v, next) == [ok |-> TRUE, val |-> v, next |-> next]
Unparsed == [ok |-> FALSE, val |-> PyNone, next |-> 0]

StartsWith(s, i, word) ==
    /\ i + Len(word) - 1 <= Len(s)
    /\ \A k \in 1..Len(word) : s[i + k - 1] = word[k]

\* the characters of a string up to its closing quote, from position i
RECURSIVE LoadStrBody(_, _, _)
LoadStrBody(s, i, acc) ==
    IF i > Len(s) THEN Unparsed
    ELSE IF s[i] = "\"" THEN Parsed(PyStr(acc), i + 1)
    ELSE IF s[i] = "\\"
    THEN IF i + 1 <= Len(s) /\ s[i + 1] \in {"\"", "\\"}
         THEN LoadStrBody(s, i + 2, Append(acc, s[i + 1]))
         ELSE Unparsed
    ELSE LoadStrBody(s, i + 1, Append(acc, s[i]))

LoadStr(s, i) ==
    IF i <= Len(s) /\ s[i] = "\"" THEN LoadStrBody(s, i + 1, <<>>) ELSE Unparsed

\* the position after the digits that start at i
RECURSIVE DigitsEnd(_, _)
DigitsEnd(s, i) == IF i <= Len(s) /\ IsDigit(s[i]) THEN DigitsEnd(s, i + 1) ELSE i

RECURSIVE Natural(_)
Natural(digits) ==
    IF digits = <<>> THEN 0
    ELSE 10 * Natural(SubSeq(digits, 1, Len(digits) - 1)) + DigitValue(digits[Len(digits)])

RECURSIVE StripZeros(_)
StripZeros(digits) ==
    IF digits # <<>> /\ digits[Len(digits)] = "0"
    THEN StripZeros(SubSeq(digits, 1, Len(digits) - 1))
    ELSE digits

\* digits, then optionally a point and digits; no leading zero
LoadNum(s, i) ==
    LET j == DigitsEnd(s, i)
        k == IF j <= Len(s) /\ s[j] = "." THEN DigitsEnd(s, j + 1) ELSE j
    IN
    IF j = i \/ (j > i + 1 /\ s[i] = "0") \/ (k = j + 1) THEN Unparsed
    ELSE Parsed(PyNum(Natural(SubSeq(s, i, j - 1)),
                      IF k > j THEN StripZeros(SubSeq(s, j + 1, k - 1)) ELSE <<>>), k)

LoadScalar(s, i) ==
    IF i > Len(s) THEN Unparsed
    ELSE IF s[i] = "\"" THEN LoadStr(s, i)
    ELSE IF IsDigit(s[i]) THEN LoadNum(s, i)
    ELSE IF StartsWith(s, i, <<"n","u","l","l">>) THEN Parsed(PyNone, i + 4)
    ELSE IF StartsWith(s, i, <<"t","r","u","e">>) THEN Parsed(PyBool(TRUE), i + 4)
    ELSE IF StartsWith(s, i, <<"f","a","l","s","e">>) THEN Parsed(PyBool(FALSE), i + 5)
    ELSE Unparsed

\* dict[key] = value: a repeated key keeps its place and takes the new value
DictSet(items, key, value) ==
    IF \E n \in 1..Len(items) : items[n][1] = key
    THEN [n \in 1..Len(items) |-> IF items[n][1] = key THEN << key, value >> ELSE items[n]]
    ELSE Append(items, << key, value >>)

\* dict.get(key)
DictGet(items, key) ==
    IF \E n \in 1..Len(items) : items[n][1] = key
    THEN items[CHOOSE n \in 1..Len(items) : items[n][1] = key][2]
    ELSE PyNone

\* the members of an object from position i, up to its closing brace
RECURSIVE LoadMembers(_, _, _)
LoadMembers(s, i, acc) ==
    LET key == LoadStr(s, i)
        value == IF key.ok /\ key.next <= Len(s) /\ s[key.next] = ":"
                 THEN LoadScalar(s, key.next + 1) ELSE Unparsed
        items == DictSet(acc, key.val.str, value.val)
    IN
    IF ~value.ok \/ value.next > Len(s) THEN Unparsed
    ELSE IF s[value.next] = "}" THEN Parsed(PyDict(items), value.next + 1)
    ELSE IF s[value.next] = "," THEN LoadMembers(s, value.next + 1, items)
    ELSE Unparsed

LoadValue(s) ==
    IF s # <<>> /\ s[1] = "{"
    THEN IF Len(s) >= 2 /\ s[2] = "}" THEN Parsed(PyDict(<<>>), 3) ELSE LoadMembers(s, 2, <<>>)
    ELSE LoadScalar(s, 1)

\* json.loads(raw_str): the value, or "error" for the exception
json_loads(s) ==
    LET r == LoadValue(s) IN
    IF r.ok /\ r.next = Len(s) + 1 THEN r.val ELSE [kind |-> "error"]

-----------------------------------------------------------------------------
(* The remote store by key: a map from the keys present to their strings.  *)

EmptyMap == [k \in {} |-> <<>>]
Put(m, k, v) == [x \in DOMAIN m \cup {k} |-> IF x = k THEN v ELSE m[x]]
Del(m, k) == [x \in DOMAIN m \ {k} |-> m[x]]

\* nothing was asked of the keyspace yet
NoReply == [op |-> "none"]

\* nothing this system wrote is under the key
NotWritten == [kind |-> "nothing"]

-----------------------------------------------------------------------------
(* asyncio.Lock: locked by a call or 0; release wakes the first waiter,    *)
(* which takes the lock when it next runs.                                 *)

FreeLock == [locked |-> 0, waiters |-> <<>>]

\* asyncio.Lock.acquire without suspending
LockIsFree(l) == l.locked = 0 /\ l.waiters = <<>>

LockTake(l, c) == [l EXCEPT !.locked = c]
LockEnqueue(l, c) == [l EXCEPT !.waiters = Append(@, c)]
LockWake(l, c) == [locked |-> c, waiters |-> Tail(l.waiters)]
LockRelease(l) == [l EXCEPT !.locked = 0]
LockCanWake(l, c) == l.locked = 0 /\ l.waiters # <<>> /\ Head(l.waiters) = c

-----------------------------------------------------------------------------

\* the locals of a call that has not started
NewCall ==
    [ pc |-> "idle",
      proc |-> 1,
      override |-> <<>>,
      image_hash |-> "abc123",
      redis_client |-> 0,
      redis_lock_acquired |-> FALSE,
      lock_client |-> 0,
      local_lock_acquired |-> FALSE,
      garment_type |-> <<>>,
      classifier |-> "none",
      wrote |-> FALSE,
      result |-> <<>>,
      raised |-> FALSE,
      failed |-> FALSE,
      owed |-> {},
      followed |-> 0,
      timed_out |-> FALSE,
      deadline |-> 0,
      armed |-> FALSE,
      used |-> 0,
      dropped |-> 0,
      round |-> 0,
      attempt |-> 0 ]

\* a call that has returned: its locals are gone, its outcome stays
Returned(r) ==
    [NewCall EXCEPT !.pc = "done", !.proc = r.proc, !.override = r.override,
                    !.image_hash = r.image_hash,
                    !.result = r.result, !.raised = r.raised,
                    !.classifier = r.classifier, !.wrote = r.wrote,
                    !.owed = r.owed]

\* nothing asked yet of the edit helpers and of the usage service, and their
\* tables empty
NotCalled == [op |-> "none"]
InitServices ==
    /\ listings = [l \in {} |-> 0]
    /\ context = NotCalled
    /\ inputs = NotCalled
    /\ subscription = [kind |-> "none"]
    /\ plan = [kind |-> "none"]
    /\ usage = [s \in {} |-> 0]
    /\ now = 0
    /\ summary = NotCalled

\* the state of the processes and of the store after start-up
InitProgram ==
    /\ GARMENT_TYPE_CLASSIFY \in BOOLEAN
    /\ GARMENT_TYPE_TTL_SECONDS \in {0, 86400}
    /\ REDIS_URL \in [Procs -> {"", "redis://cache"}]
    /\ store_cache = [d \in Digests |-> <<>>]
    /\ store_lock = [d \in Digests |-> 0]
    /\ _redis_client = [p \in Procs |-> 0]
    /\ _redis_retry_at = [p \in Procs |-> "None"]
    /\ _redis_connect_lock = [p \in Procs |-> FreeLock]
    /\ _garment_type_cache = [p \in Procs |-> [d \in Digests |-> <<>>]]
    /\ _local_singleflight_locks = [p \in Procs |-> [d \in Digests |-> [created |-> FALSE, lock |-> FreeLock]]]
    /\ running = [p \in Procs |-> 0]
    /\ call = [c \in Callers |-> NewCall]
    /\ classifier_calls = [d \in Digests |-> 0]
    /\ remote_writes = [d \in Digests |-> 0]
    /\ history = {}
    /\ faults = 0
    /\ timeouts = 0

Init ==
    /\ InitProgram
    /\ GARMENT_TYPE_CACHE_VERSION = [p \in Procs |-> <<"v","1">>]
    /\ MODEL = <<"g","e","m","i","n","i">>
    /\ keyspace = EmptyMap
    /\ wrote = EmptyMap
    /\ answered = NoReply
    /\ InitServices

-----------------------------------------------------------------------------
(* Helpers of the translation.                                             *)

Max(a, b) == IF a > b THEN a ELSE b

\* the process a call runs in
ProcOf(c) == call[c].proc

\* the call has started and has not returned
InFlight(c) == call[c].pc \notin {"idle", "done"}

\* garment.py _redis_execute: attempts = max(1, REDIS_OPERATION_RETRIES + 1)
Attempts == Max(1, REDIS_OPERATION_RETRIES + 1)

\* the last attempt of _redis_execute is being made
\* a retry loop that gives up at the first failed attempt
GivesUpAtOnce(c) == TRUE

LastAttempt(c) == call[c].attempt >= Attempts - 1

\* c can run now: the run of a call from one await to the next is atomic, in
\* its process (one event loop) and for the other processes (it touches no
\* shared state but through the awaited remote operation that started it)
Ready(c) == \A p \in Procs : running[p] \in {0, c}

\* every call is suspended at an await, or suspended inside record_redis_failure
Quiet == \A p \in Procs : running[p] = 0

Keep(c) == running' = [running EXCEPT ![ProcOf(c)] = c]
Yield(c) == running' = [running EXCEPT ![ProcOf(c)] = 0]

SetCall(c, r) == call' = [call EXCEPT ![c] = r]

\* an attempt of the remote operation c awaits fails: the operation counts
\* once, at its first failed attempt
Fault(c) ==
    /\ call[c].attempt > 0 \/ faults < MaxFaults
    /\ faults' = IF call[c].attempt = 0 THEN faults + 1 ELSE faults

\* a TTL, a deadline or a backoff elapses
Elapse(ev) ==
    /\ timeouts < MaxTimeouts
    /\ timeouts' = timeouts + 1
    /\ history' = history \cup ev

L1Put(c, v) ==
    _garment_type_cache' =
        [_garment_type_cache EXCEPT ![ProcOf(c)][call[c].image_hash] = v]

\* a decoder that takes whatever is stored as the label
TakesTypeAsIs(raw) == raw

\* a decoder that finds no entry in anything stored
DecodesNothing(raw) == <<>>

\* garment.py _decode_cache_payload lines 93-99 on the type an entry was
\* stored with: that type normalized; <<>> is a miss
DecodedType(raw) ==
    IF raw = <<>> THEN <<>> ELSE _normalize_garment_type(raw)

\* garment.py _redis_get_payload, the reply of one successful GET
_redis_get_payload(d) == DecodedType(store_cache[d])

\* classify_garment_type line 203: the normalized override, <<>> when None
NormalizedOverride(override) ==
    IF override # <<>> THEN _normalize_garment_type(override) ELSE <<>>

-----------------------------------------------------------------------------
(* Other ways the operations below could have been coded.  None of them is *)
(* used by the model; each property at the end of the module tells the     *)
(* code as written from one of them.                                       *)

\* the feature flag consulted before the override
\* a start of the call that does not look at the feature flag
ShortCircuitIgnoresFlag(override, classify) == NormalizedOverride(override)

ShortCircuitFlagFirst(override, classify) ==
    IF ~classify THEN FULL ELSE NormalizedOverride(override)

\* a SET without NX
PlainSet(stored, token) == [reply |-> TRUE, stored |-> token]

\* a DEL without the comparison of the token
UnconditionalDelete(stored, token) == 0

\* the local mutex taken by every call
\* a caller that never takes the process-local mutex
SkipsLocalLock(redis_lock_acquired) == FALSE

\* a write path that leaves the L1 map alone
NeverWritesL1(ttl) == FALSE

AlwaysTakesLocalLock(redis_lock_acquired) == TRUE

\* no remote re-check once the locks are settled
NeverRechecksRemote(redis_client) == FALSE

\* the remote write attempted without looking at the handle
WritesRemoteWithoutClient(redis_client, ttl) == ttl > 0

\* the classifier's exception let through
ClassifierFailureUncaught == [garment_type |-> FULL, raised |-> TRUE]

\* the exception of the remote write let through
SetFailureUncaught == TRUE

\* a lock stored without a time to live
LockWithoutTtl == FALSE

\* no second look at the backoff once the connect lock is held
ForgetsBackoff(retry_at) == FALSE

\* a cleanup block that leaves the local mutex alone
FinallyKeepsLocal(r) == FALSE

\* a cleanup block that leaves the distributed lock alone
FinallyKeepsRemote(r) == FALSE

\* a wait that returns as soon as it sees the lock gone
ReturnsOnLockGone == "mutex_stage"

\* a loop test that never sees the deadline passed
DeadlineNeverPassed(left) == FALSE

\* no look at the shared handle once the connect lock is held
IgnoresHandle(client) == FALSE

\* the classifier's answer normalized, with no label to fall back on
LabelWithoutDefault(text) == _normalize_garment_type(text)


\* classify_garment_type lines 204-207: the label returned before any lookup,
\* <<>> when the call goes on
ShortCircuit(override, classify) ==
    IF NormalizedOverride(override) # <<>> THEN NormalizedOverride(override)
    ELSE IF ~classify THEN FULL
    ELSE <<>>

\* _acquire_redis_lock: SET lock_key token NX EX, its reply and the lock key
\* after it
SetNx(stored, token) ==
    [reply |-> stored = 0, stored |-> IF stored = 0 THEN token ELSE stored]

\* _release_redis_lock: the lock key after the compare-and-delete script
ReleaseScript(stored, token) == IF stored = token THEN 0 ELSE stored

\* _acquire_redis_lock line 115: the lock is stored with ex=, a time to live
LockCarriesTtl == TRUE

\* get_redis_client line 36: now < _redis_retry_at
InBackoff(retry_at) == retry_at = "future"

\* get_redis_client line 43: the same test once the connect lock is held
StillInBackoff(retry_at) == InBackoff(retry_at)

\* classify_garment_type line 258: the local mutex is taken by a call that
\* does not hold the distributed lock
TakesLocalLock(redis_lock_acquired) == ~redis_lock_acquired

\* classify_garment_type line 268: the remote re-check after the locks
RechecksRemote(redis_client) == redis_client # 0

\* classify_garment_type line 311
WritesL1(ttl) == ttl > 0

\* classify_garment_type line 316
WritesRemote(redis_client, ttl) == redis_client # 0 /\ ttl > 0

\* classify_garment_type lines 306-307: the label of the classifier's answer
LabelOfText(text) ==
    LET t == _normalize_garment_type(text) IN IF t # <<>> THEN t ELSE FULL

\* classify_garment_type lines 308-309: the classifier raised; the outcome
\* is the label, and whether the exception leaves the call
ClassifierFailure == [garment_type |-> FULL, raised |-> FALSE]

\* classify_garment_type lines 319-320: the remote SET raised
SetFailureRaised == FALSE

\* _wait_for_redis_payload lines 145-151: where a wait goes once it sees the
\* lock gone: to the final read
AfterLockGone == "wait_get2"

\* redis.py line 39: the shared handle is there once the connect lock is held
HandleUnderLock(client) == client # 0

\* classify_garment_type line 323
FinallyReleasesLocal(r) == r.local_lock_acquired

\* classify_garment_type line 325
FinallyReleasesRemote(r) == r.lock_client # 0 /\ r.redis_lock_acquired

\* redis.py record_redis_failure, awaited by c: the handle is dropped, the
\* backoff armed, and c is suspended while the dropped handle closes
\* a failure report that drops the handle and leaves the backoff as it was
RecordsWithoutBackoff(c) ==
    LET p == ProcOf(c) IN
    /\ _redis_client' = [_redis_client EXCEPT ![p] = 0]
    /\ running' = [running EXCEPT ![p] = IF _redis_client[p] # 0 THEN 0 ELSE c]
    /\ UNCHANGED << _redis_retry_at, _redis_connect_lock >>

record_redis_failure(c) ==
    LET p == ProcOf(c) IN
    /\ _redis_retry_at' = [_redis_retry_at EXCEPT ![p] = "future"]
    /\ _redis_client' = [_redis_client EXCEPT ![p] = 0]
    /\ running' = [running EXCEPT ![p] = IF _redis_client[p] # 0 THEN 0 ELSE c]
    /\ UNCHANGED _redis_connect_lock

RemotePcs == {"get1", "acquire", "wait_get", "wait_exists", "wait_get2", "get2", "set", "release"}
WaitPcs == {"wait_get", "wait_exists", "wait_get2"}

\* the lock key after the store applied the operation c awaits
AppliedLock(c) ==
    LET d == call[c].image_hash IN
    CASE call[c].pc = "acquire" -> [store_lock EXCEPT ![d] = SetNx(@, c).stored]
      [] call[c].pc = "release" -> [store_lock EXCEPT ![d] = ReleaseScript(@, c)]
      [] OTHER -> store_lock

\* the value key after the store applied the operation c awaits
AppliedCache(c) ==
    LET d == call[c].image_hash IN
    IF call[c].pc = "set"
    THEN [store_cache EXCEPT ![d] = call[c].garment_type]
    ELSE store_cache

\* the applied SETs of the entry: a call's SET counts once, retried or not
AppliedWrites(c) ==
    LET d == call[c].image_hash IN
    IF call[c].pc = "set" /\ ~call[c].wrote
    THEN [remote_writes EXCEPT ![d] = @ + 1]
    ELSE remote_writes

\* the store and the count after an attempt that the store applied or not
Attempted(c, applied) ==
    /\ store_lock' = IF applied THEN AppliedLock(c) ELSE store_lock
    /\ store_cache' = IF applied THEN AppliedCache(c) ELSE store_cache
    /\ remote_writes' = IF applied THEN AppliedWrites(c) ELSE remote_writes

-----------------------------------------------------------------------------
(* classify_garment_type, lines 200-214                                    *)

\* call c starts in process p with override o and an image of digest d; the
\* calls are numbered in the order they start
\* the labels that the calls for d completed so far computed and left where
\* a call of process p looks: in the L1 map of p, or in the store p reads
StoredFor(p, d) ==
    { call[a].result :
        a \in { b \in Callers :
                  /\ call[b].pc = "done"
                  /\ call[b].image_hash = d
                  /\ call[b].classifier # "none"
                  /\ GARMENT_TYPE_TTL_SECONDS > 0
                  /\ \/ call[b].proc = p /\ _garment_type_cache[p][d] # <<>>
                     \/ /\ call[b].proc # p
                        /\ call[b].wrote
                        /\ store_cache[d] # <<>>
                        /\ REDIS_URL[p] # "" } }

Call(c, p, o, d) ==
    LET short == ShortCircuit(o, GARMENT_TYPE_CLASSIFY)
        r == [call[c] EXCEPT !.proc = p, !.image_hash = d, !.override = o,
                             !.owed = IF short # <<>> THEN {} ELSE StoredFor(p, d)]
        cached == _garment_type_cache[p][d]
    IN
    /\ call[c].pc = "idle"
    /\ \A b \in Callers : b < c => call[b].pc # "idle"
    /\ Quiet
    /\ IF short # <<>>
       THEN /\ SetCall(c, Returned([r EXCEPT !.result = short]))
            /\ UNCHANGED running
       ELSE IF cached # <<>>
       THEN /\ SetCall(c, Returned([r EXCEPT !.result = cached]))
            /\ UNCHANGED running
       ELSE /\ SetCall(c, [r EXCEPT !.pc = "get_client"])
            /\ running' = [running EXCEPT ![p] = c]
    /\ UNCHANGED << config, keyed, store, supervisor, _garment_type_cache,
                    _local_singleflight_locks, observed >>

-----------------------------------------------------------------------------
(* redis.py get_redis_client, called at line 216                           *)

\* the override is not read after line 205 and is dropped here
GetRedisClient(c) ==
    LET p == ProcOf(c)
        r == [call[c] EXCEPT !.override = <<>>]
    IN
    /\ call[c].pc = "get_client"
    /\ Ready(c)
    /\ IF REDIS_URL[p] = ""
       THEN /\ SetCall(c, [r EXCEPT !.pc = "after_client", !.redis_client = 0])
            /\ Keep(c)
            /\ UNCHANGED _redis_connect_lock
       ELSE IF _redis_client[p] # 0
       THEN /\ SetCall(c, [r EXCEPT !.pc = "after_client",
                                          !.redis_client = _redis_client[p]])
            /\ Keep(c)
            /\ UNCHANGED _redis_connect_lock
       ELSE IF InBackoff(_redis_retry_at[p])
       THEN /\ SetCall(c, [r EXCEPT !.pc = "after_client", !.redis_client = 0])
            /\ Keep(c)
            /\ UNCHANGED _redis_connect_lock
       ELSE IF LockIsFree(_redis_connect_lock[p]) /\ StillInBackoff(_redis_retry_at[p])
       THEN /\ _redis_connect_lock' = [_redis_connect_lock EXCEPT ![p] = FreeLock]
            /\ SetCall(c, [r EXCEPT !.pc = "after_client", !.redis_client = 0])
            /\ Keep(c)
       ELSE IF LockIsFree(_redis_connect_lock[p])
       THEN /\ _redis_connect_lock' = [_redis_connect_lock EXCEPT ![p] = LockTake(@, c)]
            /\ SetCall(c, [r EXCEPT !.pc = "ping"])
            /\ Yield(c)
       ELSE /\ _redis_connect_lock' = [_redis_connect_lock EXCEPT ![p] = LockEnqueue(@, c)]
            /\ SetCall(c, [r EXCEPT !.pc = "connect_wait"])
            /\ Yield(c)
    /\ UNCHANGED << config, keyed, store, _redis_client, _redis_retry_at, _garment_type_cache,
                    _local_singleflight_locks, observed >>

\* lines 38-45: the connect lock is obtained after waiting for it
ConnectLockAcquired(c) ==
    LET p == ProcOf(c)
        l == LockWake(_redis_connect_lock[p], c)
    IN
    /\ call[c].pc = "connect_wait"
    /\ Quiet
    /\ LockCanWake(_redis_connect_lock[p], c)
    /\ IF HandleUnderLock(_redis_client[p])
       THEN /\ _redis_connect_lock' = [_redis_connect_lock EXCEPT ![p] = LockRelease(l)]
            /\ SetCall(c, [call[c] EXCEPT !.pc = "after_client",
                                          !.redis_client = _redis_client[p]])
            /\ Keep(c)
       ELSE IF StillInBackoff(_redis_retry_at[p])
       THEN /\ _redis_connect_lock' = [_redis_connect_lock EXCEPT ![p] = LockRelease(l)]
            /\ SetCall(c, [call[c] EXCEPT !.pc = "after_client", !.redis_client = 0])
            /\ Keep(c)
       ELSE /\ _redis_connect_lock' = [_redis_connect_lock EXCEPT ![p] = l]
            /\ SetCall(c, [call[c] EXCEPT !.pc = "ping"])
            /\ Yield(c)
    /\ UNCHANGED << config, keyed, store, _redis_client, _redis_retry_at, _garment_type_cache,
                    _local_singleflight_locks, observed >>

\* lines 46-55, 66-68: the handshake succeeds
\* a successful handshake that installs the handle and leaves the backoff
PingOkKeepsBackoff(c) ==
    LET p == ProcOf(c) IN
    /\ call[c].pc = "ping"
    /\ Quiet
    /\ _redis_client' = [_redis_client EXCEPT ![p] = c]
    /\ _redis_connect_lock' = [_redis_connect_lock EXCEPT ![p] = LockRelease(@)]
    /\ SetCall(c, [call[c] EXCEPT !.pc = "after_client", !.redis_client = c])
    /\ Keep(c)
    /\ UNCHANGED << config, keyed, store, _redis_retry_at, _garment_type_cache,
                    _local_singleflight_locks, observed >>

PingOk(c) ==
    LET p == ProcOf(c) IN
    /\ call[c].pc = "ping"
    /\ Quiet
    /\ _redis_client' = [_redis_client EXCEPT ![p] = c]
    /\ _redis_retry_at' = [_redis_retry_at EXCEPT ![p] = "None"]
    /\ _redis_connect_lock' = [_redis_connect_lock EXCEPT ![p] = LockRelease(@)]
    /\ SetCall(c, [call[c] EXCEPT !.pc = "after_client", !.redis_client = c])
    /\ Keep(c)
    /\ UNCHANGED << config, keyed, store, _garment_type_cache, _local_singleflight_locks, observed >>

\* lines 56-62: the handshake fails, the candidate is closed
PingFails(c) ==
    LET p == ProcOf(c) IN
    /\ call[c].pc = "ping"
    /\ Quiet
    /\ _redis_client' = [_redis_client EXCEPT ![p] = 0]
    /\ _redis_retry_at' = [_redis_retry_at EXCEPT ![p] = "future"]
    /\ SetCall(c, [call[c] EXCEPT !.pc = "ping_close"])
    /\ Fault(c)
    /\ UNCHANGED << config, keyed, store, _redis_connect_lock, _garment_type_cache,
                    _local_singleflight_locks, running, counters >>

\* lines 63-65
PingClosed(c) ==
    LET p == ProcOf(c) IN
    /\ call[c].pc = "ping_close"
    /\ Quiet
    /\ _redis_connect_lock' = [_redis_connect_lock EXCEPT ![p] = LockRelease(@)]
    /\ SetCall(c, [call[c] EXCEPT !.pc = "after_client", !.redis_client = 0])
    /\ Keep(c)
    /\ UNCHANGED << config, keyed, store, _redis_client, _redis_retry_at, _garment_type_cache,
                    _local_singleflight_locks, observed >>

-----------------------------------------------------------------------------
(* classify_garment_type, lines 217-231: the first remote read             *)

AfterClient(c) ==
    /\ call[c].pc = "after_client"
    /\ Ready(c)
    /\ IF call[c].redis_client # 0 /\ GARMENT_TYPE_TTL_SECONDS > 0
       THEN /\ SetCall(c, [call[c] EXCEPT !.pc = "get1", !.attempt = 0])
            /\ Yield(c)
       ELSE /\ SetCall(c, [call[c] EXCEPT !.pc = "lock_stage"])
            /\ Keep(c)
    /\ UNCHANGED << config, keyed, store, supervisor, _garment_type_cache,
                    _local_singleflight_locks, observed >>

Get1Ok(c) ==
    LET payload == _redis_get_payload(call[c].image_hash) IN
    /\ call[c].pc = "get1"
    /\ Quiet
    /\ IF payload # <<>>
       THEN /\ L1Put(c, payload)
            /\ SetCall(c, Returned([call[c] EXCEPT !.result = payload]))
            /\ UNCHANGED running
       ELSE /\ SetCall(c, [call[c] EXCEPT !.pc = "lock_stage"])
            /\ Keep(c)
            /\ UNCHANGED _garment_type_cache
    /\ UNCHANGED << config, keyed, store, supervisor, _local_singleflight_locks, observed >>

\* lines 222-224
Get1Raises(c) ==
    /\ call[c].pc = "get1"
    /\ Quiet
    /\ LastAttempt(c)
    /\ record_redis_failure(c)
    /\ SetCall(c, [call[c] EXCEPT !.pc = "lock_stage", !.redis_client = 0,
                                  !.failed = TRUE])
    /\ Fault(c)
    /\ UNCHANGED << config, keyed, store, _garment_type_cache, _local_singleflight_locks, counters >>

\* _redis_execute lines 70-74: an attempt of the awaited remote operation
\* fails or times out and another attempt follows; the store may have applied
\* the operation although the reply was lost
RedisAttemptRetry(c, applied) ==
    /\ call[c].pc \in RemotePcs
    /\ Quiet
    /\ ~LastAttempt(c)
    /\ applied => call[c].pc \in {"acquire", "set", "release"}
    /\ Attempted(c, applied)
    /\ SetCall(c, [call[c] EXCEPT !.attempt = @ + 1,
                                  !.wrote = @ \/ (applied /\ call[c].pc = "set")])
    /\ Fault(c)
    /\ UNCHANGED << config, keyed, supervisor, _garment_type_cache, _local_singleflight_locks,
                    running, classifier_calls, history, timeouts >>

-----------------------------------------------------------------------------
(* lines 233-257: the distributed lock                                     *)

LockStage(c) ==
    /\ call[c].pc = "lock_stage"
    /\ Ready(c)
    /\ IF call[c].redis_client # 0
       THEN /\ SetCall(c, [call[c] EXCEPT !.pc = "acquire", !.attempt = 0])
            /\ Yield(c)
       ELSE /\ SetCall(c, [call[c] EXCEPT !.pc = "mutex_stage"])
            /\ Keep(c)
    /\ UNCHANGED << config, keyed, store, supervisor, _garment_type_cache,
                    _local_singleflight_locks, observed >>

\* _acquire_redis_lock replies; lines 246-248 and 256-257
AcquireOk(c) ==
    LET d == call[c].image_hash
        got == SetNx(store_lock[d], c).reply
    IN
    /\ call[c].pc = "acquire"
    /\ Quiet
    /\ store_lock' = AppliedLock(c)
    /\ IF got
       THEN /\ SetCall(c, [call[c] EXCEPT !.pc = "mutex_stage",
                                          !.redis_lock_acquired = TRUE,
                                          !.lock_client = call[c].redis_client])
            /\ Keep(c)
       ELSE /\ SetCall(c, [call[c] EXCEPT !.pc = "wait_get", !.attempt = 0,
                                          !.followed = store_lock[d]])
            /\ UNCHANGED running
    /\ UNCHANGED << config, keyed, store_cache, supervisor, _garment_type_cache,
                    _local_singleflight_locks, observed >>

\* lines 242-244
AcquireRaises(c, applied) ==
    /\ call[c].pc = "acquire"
    /\ Quiet
    /\ LastAttempt(c)
    /\ Attempted(c, applied)
    /\ record_redis_failure(c)
    /\ SetCall(c, [call[c] EXCEPT !.pc = "mutex_stage", !.redis_client = 0,
                                  !.failed = TRUE])
    /\ Fault(c)
    /\ UNCHANGED << config, keyed, _garment_type_cache, _local_singleflight_locks,
                    classifier_calls, history, timeouts >>

-----------------------------------------------------------------------------
(* _wait_for_redis_payload, lines 128-153, and lines 249-255               *)

\* a payload was found in the remote store after the first read: lines
\* 249-255 and 275-281
Found(c, payload) ==
    /\ IF WritesL1(GARMENT_TYPE_TTL_SECONDS)
       THEN L1Put(c, payload)
       ELSE UNCHANGED _garment_type_cache
    /\ SetCall(c, [call[c] EXCEPT !.pc = "finally", !.result = payload])
    /\ Keep(c)

\* the call whose lock c waits on has written its entry and released
LeaderFinished(c) ==
    LET leader == call[c].followed IN
    /\ leader # 0
    /\ call[leader].wrote
    /\ store_lock[call[c].image_hash] # leader

WaitGetOk(c) ==
    LET payload == _redis_get_payload(call[c].image_hash) IN
    /\ call[c].pc = "wait_get"
    /\ Quiet
    /\ IF payload # <<>>
       THEN Found(c, payload)
       ELSE /\ SetCall(c, [call[c] EXCEPT !.pc = "wait_exists", !.attempt = 0])
            /\ UNCHANGED << running, _garment_type_cache >>
    /\ UNCHANGED << config, keyed, store, supervisor, _local_singleflight_locks, observed >>

WaitExistsOk(c) ==
    LET lock_exists == store_lock[call[c].image_hash] # 0 IN
    /\ call[c].pc = "wait_exists"
    /\ Quiet
    /\ IF ~lock_exists
       THEN SetCall(c, [call[c] EXCEPT !.pc = AfterLockGone, !.attempt = 0])
       ELSE SetCall(c, [call[c] EXCEPT !.pc = "wait_sleep"])
    /\ UNCHANGED << config, keyed, store, supervisor, _garment_type_cache,
                    _local_singleflight_locks, running, observed >>

\* lines 146-151: the final read once the lock is gone
WaitGet2Ok(c) ==
    LET payload == _redis_get_payload(call[c].image_hash) IN
    /\ call[c].pc = "wait_get2"
    /\ Quiet
    /\ IF payload # <<>>
       THEN Found(c, payload)
       ELSE /\ SetCall(c, [call[c] EXCEPT !.pc = "mutex_stage"])
            /\ Keep(c)
            /\ UNCHANGED _garment_type_cache
    /\ UNCHANGED << config, keyed, store, supervisor, _local_singleflight_locks, observed >>

\* lines 152, 132, 153: the sleep ends; the deadline has passed or not
WaitWake(c, passed) ==
    /\ call[c].pc = "wait_sleep"
    /\ Quiet
    /\ IF passed
       THEN /\ SetCall(c, [call[c] EXCEPT !.pc = "mutex_stage",
                                          !.timed_out = ~LeaderFinished(c)])
            /\ Keep(c)
            /\ Elapse({"deadline"})
       ELSE /\ SetCall(c, [call[c] EXCEPT !.pc = "wait_get", !.attempt = 0])
            /\ UNCHANGED << running, history, timeouts >>
    /\ UNCHANGED << config, keyed, store, supervisor, _garment_type_cache,
                    _local_singleflight_locks, classifier_calls, remote_writes, faults >>

\* lines 135-137, 142-144, 148-150: the wait returns None, the caller keeps
\* its redis_client
WaitRaises(c) ==
    /\ call[c].pc \in WaitPcs
    /\ Quiet
    /\ LastAttempt(c)
    /\ record_redis_failure(c)
    /\ SetCall(c, [call[c] EXCEPT !.pc = "mutex_stage", !.failed = TRUE])
    /\ Fault(c)
    /\ UNCHANGED << config, keyed, store, _garment_type_cache, _local_singleflight_locks, counters >>

-----------------------------------------------------------------------------
(* lines 258-281: the local singleflight mutex and the re-checks           *)

\* lines 258-261, with _get_local_singleflight_lock (lines 55-61)
MutexStage(c) ==
    LET p == ProcOf(c)
        d == call[c].image_hash
        m == _local_singleflight_locks[p][d]
    IN
    /\ call[c].pc = "mutex_stage"
    /\ Ready(c)
    /\ IF ~TakesLocalLock(call[c].redis_lock_acquired)
       THEN /\ SetCall(c, [call[c] EXCEPT !.pc = "post_lock"])
            /\ Keep(c)
            /\ UNCHANGED _local_singleflight_locks
       ELSE IF LockIsFree(m.lock)
       THEN /\ _local_singleflight_locks' =
                   [_local_singleflight_locks EXCEPT ![p][d] =
                       [created |-> TRUE, lock |-> LockTake(m.lock, c)]]
            /\ SetCall(c, [call[c] EXCEPT !.pc = "post_lock",
                                          !.local_lock_acquired = TRUE])
            /\ Keep(c)
       ELSE /\ _local_singleflight_locks' =
                   [_local_singleflight_locks EXCEPT ![p][d].lock = LockEnqueue(@, c)]
            /\ SetCall(c, [call[c] EXCEPT !.pc = "local_wait"])
            /\ Yield(c)
    /\ UNCHANGED << config, keyed, store, supervisor, _garment_type_cache, observed >>

\* lines 260-261: the mutex is obtained after waiting for it
LocalLockAcquired(c) ==
    LET p == ProcOf(c)
        d == call[c].image_hash
    IN
    /\ call[c].pc = "local_wait"
    /\ Quiet
    /\ LockCanWake(_local_singleflight_locks[p][d].lock, c)
    /\ _local_singleflight_locks' =
           [_local_singleflight_locks EXCEPT ![p][d].lock = LockWake(@, c)]
    /\ SetCall(c, [call[c] EXCEPT !.pc = "post_lock", !.local_lock_acquired = TRUE])
    /\ Keep(c)
    /\ UNCHANGED << config, keyed, store, supervisor, _garment_type_cache, observed >>

\* lines 263-268
PostLock(c) ==
    LET cached == _garment_type_cache[ProcOf(c)][call[c].image_hash] IN
    /\ call[c].pc = "post_lock"
    /\ Ready(c)
    /\ IF cached # <<>>
       THEN /\ SetCall(c, [call[c] EXCEPT !.pc = "finally", !.result = cached])
            /\ Keep(c)
       ELSE IF RechecksRemote(call[c].redis_client)
       THEN /\ SetCall(c, [call[c] EXCEPT !.pc = "get2", !.attempt = 0])
            /\ Yield(c)
       ELSE /\ SetCall(c, [call[c] EXCEPT !.pc = "invoke"])
            /\ Keep(c)
    /\ UNCHANGED << config, keyed, store, supervisor, _garment_type_cache,
                    _local_singleflight_locks, observed >>

\* lines 270, 275-281
Get2Ok(c) ==
    LET payload == _redis_get_payload(call[c].image_hash) IN
    /\ call[c].pc = "get2"
    /\ Quiet
    /\ IF payload # <<>>
       THEN Found(c, payload)
       ELSE /\ SetCall(c, [call[c] EXCEPT !.pc = "invoke"])
            /\ Keep(c)
            /\ UNCHANGED _garment_type_cache
    /\ UNCHANGED << config, keyed, store, supervisor, _local_singleflight_locks, observed >>

\* lines 271-273
Get2Raises(c) ==
    /\ call[c].pc = "get2"
    /\ Quiet
    /\ LastAttempt(c)
    /\ record_redis_failure(c)
    /\ SetCall(c, [call[c] EXCEPT !.pc = "invoke", !.redis_client = 0,
                                  !.failed = TRUE])
    /\ Fault(c)
    /\ UNCHANGED << config, keyed, store, _garment_type_cache, _local_singleflight_locks, counters >>

-----------------------------------------------------------------------------
(* lines 283-321: the external classifier and the writes                   *)

\* lines 283-293: the classifier is invoked
Invoke(c) ==
    /\ call[c].pc = "invoke"
    /\ Ready(c)
    /\ SetCall(c, [call[c] EXCEPT !.pc = "classify"])
    /\ classifier_calls' = [classifier_calls EXCEPT ![call[c].image_hash] = @ + 1]
    /\ Yield(c)
    /\ UNCHANGED << config, keyed, store, supervisor, _garment_type_cache,
                    _local_singleflight_locks, remote_writes, history, faults, timeouts >>

\* lines 310-316 with the label garment_type; how: "answered" or "raised"
Computed(c, garment_type, how) ==
    LET r == [call[c] EXCEPT !.garment_type = garment_type, !.classifier = how] IN
    /\ IF WritesL1(GARMENT_TYPE_TTL_SECONDS)
       THEN L1Put(c, garment_type)
       ELSE UNCHANGED _garment_type_cache
    /\ IF WritesRemote(call[c].redis_client, GARMENT_TYPE_TTL_SECONDS)
       THEN /\ SetCall(c, [r EXCEPT !.pc = "set", !.attempt = 0])
            /\ UNCHANGED running
       ELSE /\ SetCall(c, [r EXCEPT !.pc = "finally", !.result = garment_type])
            /\ Keep(c)

\* lines 293-307: the classifier answers text
ClassifierReturns(c, text) ==
    /\ call[c].pc = "classify"
    /\ Quiet
    /\ Computed(c, LabelOfText(text), "answered")
    /\ UNCHANGED << config, keyed, store, supervisor, _local_singleflight_locks, observed >>

\* lines 308-309: the classifier raises after its own retries
ClassifierRaises(c) ==
    /\ call[c].pc = "classify"
    /\ Quiet
    /\ IF ClassifierFailure.raised
       THEN /\ SetCall(c, [call[c] EXCEPT !.pc = "finally", !.raised = TRUE,
                                          !.classifier = "raised"])
            /\ Keep(c)
            /\ UNCHANGED _garment_type_cache
       ELSE Computed(c, ClassifierFailure.garment_type, "raised")
    /\ UNCHANGED << config, keyed, store, supervisor, _local_singleflight_locks, observed >>

\* line 318 replies, line 321
SetOk(c) ==
    /\ call[c].pc = "set"
    /\ Quiet
    /\ Attempted(c, TRUE)
    /\ SetCall(c, [call[c] EXCEPT !.pc = "finally", !.result = call[c].garment_type,
                                  !.wrote = TRUE])
    /\ Keep(c)
    /\ UNCHANGED << config, keyed, supervisor, _garment_type_cache, _local_singleflight_locks,
                    classifier_calls, history, faults, timeouts >>

\* lines 319-321
SetRaises(c, applied) ==
    /\ call[c].pc = "set"
    /\ Quiet
    /\ LastAttempt(c)
    /\ Attempted(c, applied)
    /\ record_redis_failure(c)
    /\ IF SetFailureRaised
       THEN SetCall(c, [call[c] EXCEPT !.pc = "finally", !.raised = TRUE,
                                       !.failed = TRUE])
       ELSE SetCall(c, [call[c] EXCEPT !.pc = "finally", !.result = call[c].garment_type,
                                       !.wrote = @ \/ applied, !.failed = TRUE])
    /\ Fault(c)
    /\ UNCHANGED << config, keyed, _garment_type_cache, _local_singleflight_locks,
                    classifier_calls, history, timeouts >>

-----------------------------------------------------------------------------
(* lines 322-329: the cleanup block                                        *)

Finally(c) ==
    LET p == ProcOf(c)
        d == call[c].image_hash
    IN
    /\ call[c].pc = "finally"
    /\ Ready(c)
    /\ IF FinallyReleasesLocal(call[c])
       THEN _local_singleflight_locks' =
                [_local_singleflight_locks EXCEPT ![p][d].lock = LockRelease(@)]
       ELSE UNCHANGED _local_singleflight_locks
    /\ IF FinallyReleasesRemote(call[c])
       THEN SetCall(c, [call[c] EXCEPT !.pc = "release", !.attempt = 0])
       ELSE SetCall(c, Returned(call[c]))
    /\ Yield(c)
    /\ UNCHANGED << config, keyed, store, supervisor, _garment_type_cache, observed >>

\* _release_redis_lock replies
ReleaseOk(c) ==
    /\ call[c].pc = "release"
    /\ Quiet
    /\ store_lock' = AppliedLock(c)
    /\ SetCall(c, Returned(call[c]))
    /\ UNCHANGED << config, keyed, store_cache, supervisor, _garment_type_cache,
                    _local_singleflight_locks, running, observed >>

\* _release_redis_lock lines 124-125: the error is swallowed
ReleaseRaises(c, applied) ==
    /\ call[c].pc = "release"
    /\ Quiet
    /\ LastAttempt(c)
    /\ Attempted(c, applied)
    /\ SetCall(c, Returned(call[c]))
    /\ Fault(c)
    /\ UNCHANGED << config, keyed, supervisor, _garment_type_cache, _local_singleflight_locks,
                    running, classifier_calls, history, timeouts >>

-----------------------------------------------------------------------------
(* The clock: expiries of the remote store (EX), of L1 entries and of the  *)
(* backoff.                                                                 *)

\* SET lock_key token NX EX GARMENT_TYPE_LOCK_TTL_SECONDS: the lock expires
LockExpires(d) ==
    LET owner == store_lock[d] IN
    /\ owner # 0
    /\ LockCarriesTtl
    /\ Quiet
    /\ store_lock' = [store_lock EXCEPT ![d] = 0]
    /\ Elapse(IF InFlight(owner) THEN {"lock_expired"} ELSE {})
    /\ UNCHANGED << config, keyed, store_cache, supervisor, _garment_type_cache,
                    _local_singleflight_locks, running, call, classifier_calls,
                    remote_writes, faults >>

\* SET redis_key data EX GARMENT_TYPE_TTL_SECONDS: the entry expires
EntryExpires(d) ==
    /\ store_cache[d] # <<>>
    /\ Quiet
    /\ store_cache' = [store_cache EXCEPT ![d] = <<>>]
    /\ remote_writes' = [remote_writes EXCEPT ![d] = 0]
    /\ classifier_calls' = [classifier_calls EXCEPT ![d] = 0]
    /\ Elapse(IF \E c \in Callers : InFlight(c) /\ call[c].image_hash = d
              THEN {"entry_expired"} ELSE {})
    /\ UNCHANGED << config, keyed, store_lock, supervisor, _garment_type_cache,
                    _local_singleflight_locks, running, call, faults >>

\* lines 213, 265: cached_entry[0] > now no longer holds
L1Expires(p, d) ==
    /\ _garment_type_cache[p][d] # <<>>
    /\ Quiet
    /\ _garment_type_cache' = [_garment_type_cache EXCEPT ![p][d] = <<>>]
    /\ Elapse({})
    /\ UNCHANGED << config, keyed, store, supervisor, _local_singleflight_locks, running, call,
                    classifier_calls, remote_writes, faults >>

\* redis.py lines 36, 43: now < _redis_retry_at no longer holds
BackoffElapses(p) ==
    /\ _redis_retry_at[p] = "future"
    /\ Quiet
    /\ _redis_retry_at' = [_redis_retry_at EXCEPT ![p] = "past"]
    /\ Elapse({})
    /\ UNCHANGED << config, keyed, store, _redis_client, _redis_connect_lock, _garment_type_cache,
                    _local_singleflight_locks, running, call, classifier_calls,
                    remote_writes, faults >>

-----------------------------------------------------------------------------

\* the steps of the calls
Steps ==
    \/ \E c \in Callers, p \in Procs, o \in Overrides, d \in Digests : Call(c, p, o, d)
    \/ \E c \in Callers : GetRedisClient(c)
    \/ \E c \in Callers : ConnectLockAcquired(c)
    \/ \E c \in Callers : PingOk(c)
    \/ \E c \in Callers : PingFails(c)
    \/ \E c \in Callers : PingClosed(c)
    \/ \E c \in Callers : AfterClient(c)
    \/ \E c \in Callers : Get1Ok(c)
    \/ \E c \in Callers : Get1Raises(c)
    \/ \E c \in Callers, applied \in BOOLEAN : RedisAttemptRetry(c, applied)
    \/ \E c \in Callers : LockStage(c)
    \/ \E c \in Callers : AcquireOk(c)
    \/ \E c \in Callers, applied \in BOOLEAN : AcquireRaises(c, applied)
    \/ \E c \in Callers : WaitGetOk(c)
    \/ \E c \in Callers : WaitExistsOk(c)
    \/ \E c \in Callers : WaitGet2Ok(c)
    \/ \E c \in Callers, passed \in BOOLEAN : WaitWake(c, passed)
    \/ \E c \in Callers : WaitRaises(c)
    \/ \E c \in Callers : MutexStage(c)
    \/ \E c \in Callers : LocalLockAcquired(c)
    \/ \E c \in Callers : PostLock(c)
    \/ \E c \in Callers : Get2Ok(c)
    \/ \E c \in Callers : Get2Raises(c)
    \/ \E c \in Callers : Invoke(c)
    \/ \E c \in Callers, text \in ClassifierTexts : ClassifierReturns(c, text)
    \/ \E c \in Callers : ClassifierRaises(c)
    \/ \E c \in Callers : SetOk(c)
    \/ \E c \in Callers, applied \in BOOLEAN : SetRaises(c, applied)
    \/ \E c \in Callers : Finally(c)
    \/ \E c \in Callers : ReleaseOk(c)
    \/ \E c \in Callers, applied \in BOOLEAN : ReleaseRaises(c, applied)

Next ==
    \/ Steps
    \/ \E d \in Digests : LockExpires(d)
    \/ \E d \in Digests : EntryExpires(d)
    \/ \E p \in Procs, d \in Digests : L1Expires(p, d)
    \/ \E p \in Procs : BackoffElapses(p)

Spec == Init /\ [][Next]_vars

-----------------------------------------------------------------------------
(* The same system with the clock of the store left free: a stored lock    *)
(* expires whatever has elapsed before.  A call may stop for ever at any   *)
(* await (a crashed or stalled holder); what is assumed is that the store  *)
(* does expire its keys, that code between two awaits runs on, and that a  *)
(* polling call is scheduled again.                                        *)

\* SET lock_key token NX EX GARMENT_TYPE_LOCK_TTL_SECONDS: the lock expires
LockTtlElapses(d) ==
    LET owner == store_lock[d] IN
    /\ owner # 0
    /\ LockCarriesTtl
    /\ Quiet
    /\ store_lock' = [store_lock EXCEPT ![d] = 0]
    /\ history' = history \cup (IF InFlight(owner) THEN {"lock_expired"} ELSE {})
    /\ UNCHANGED << config, keyed, store_cache, supervisor, _garment_type_cache,
                    _local_singleflight_locks, running, call, classifier_calls,
                    remote_writes, faults, timeouts >>

\* the feature is on and every process has the store configured
InitLive ==
    /\ Init
    /\ GARMENT_TYPE_CLASSIFY
    /\ \A p \in Procs : REDIS_URL[p] # ""

NextLive ==
    \/ Steps
    \/ \E d \in Digests : LockTtlElapses(d)

\* the code between two awaits runs to the next await
Continue(c) ==
    \/ GetRedisClient(c)
    \/ AfterClient(c)
    \/ LockStage(c)
    \/ MutexStage(c)
    \/ PostLock(c)
    \/ Invoke(c)
    \/ Finally(c)

\* _wait_for_redis_payload lines 132-152: one more step of the polling loop
Poll(c) ==
    \/ WaitGetOk(c)
    \/ WaitExistsOk(c)
    \/ WaitGet2Ok(c)
    \/ WaitWake(c, FALSE)

SpecLive ==
    /\ InitLive
    /\ [][NextLive]_vars
    /\ \A c \in Callers : WF_vars(Continue(c))
    /\ \A d \in Digests : WF_vars(LockTtlElapses(d))
    /\ \A c \in Callers : WF_vars(Poll(c))

\* the operation call c awaits does not hang: a remote operation or the
\* classifier answers, an asyncio.Lock is handed over by its holder (the
\* failures stay possible steps, and end the wait for the answer as well)
Replies(c) ==
    \/ ClassifierRaises(c)
    \/ \E text \in ClassifierTexts : ClassifierReturns(c, text)
    \/ PingOk(c)
    \/ PingClosed(c)
    \/ Get1Ok(c)
    \/ AcquireOk(c)
    \/ Get2Ok(c)
    \/ SetOk(c)
    \/ ReleaseOk(c)
    \/ ConnectLockAcquired(c)
    \/ LocalLockAcquired(c)

\* the next step of call c, whatever it is
Advance(c) == Continue(c) \/ Poll(c) \/ Replies(c)

\* fair scheduling, and every awaited operation returns or fails
SpecFair ==
    /\ InitLive
    /\ [][NextLive]_vars
    /\ \A c \in Callers : WF_vars(Advance(c))
    /\ \A d \in Digests : WF_vars(LockTtlElapses(d))

-----------------------------------------------------------------------------
(* The store by key: the keys the processes build from their configured    *)
(* version, and the strings the entries and the lock tokens are stored as. *)

\* config.py line 31, the default
GARMENT_TYPE_CACHE_PREFIX == << "g", "a", "r", "m", "e", "n", "t", "_", "t", "y", "p", "e" >>

\* the versions a process can be configured with (config.py line 30: any
\* non-empty text); the last one starts with the word of the lock keys
Versions ==
    { << "v", "1" >>, << "v", "2" >>, << "l", "o", "c", "k", ":", "v", "1" >> }

\* the model ids a deployment can be configured with (config.py line 25)
ModelIds == { << "g", "e", "m", "i", "n", "i" >>, << "g", "\"", "\\" >> }

\* the digests of the images, as the hexadecimal text the keys carry
ImageHashes == { << "a", "b", "c", "1", "2", "3" >> }

\* the tokens a leader draws (uuid4().hex, abbreviated)
Tokens == { << "7", "f" >>, << "1", "2" >> }

\* the values time.time() gives
Timestamps == { PyNum(0, <<>>), PyNum(1700, << "0", "5" >>) }

KeyType == << "t", "y", "p", "e" >>
KeyOrigin == << "o", "r", "i", "g", "i", "n" >>
KeyTs == << "t", "s" >>
KeyModelId == << "m", "o", "d", "e", "l", "_", "i", "d" >>
OriginClassifier == << "c", "l", "a", "s", "s", "i", "f", "i", "e", "r" >>

\* a key that leaves the version out
UnversionedKey(version, image_hash) ==
    GARMENT_TYPE_CACHE_PREFIX \o << ":" >> \o image_hash

\* garment.py _cache_key, with the version of the process that builds it
_cache_key(version, image_hash) ==
    GARMENT_TYPE_CACHE_PREFIX \o << ":" >> \o version \o << ":" >> \o image_hash

\* garment.py _lock_key
_lock_key(version, image_hash) ==
    GARMENT_TYPE_CACHE_PREFIX \o << ":", "l", "o", "c", "k", ":" >> \o version
        \o << ":" >> \o image_hash

\* garment.py _build_cache_payload
_build_cache_payload(garment_type, origin, ts) ==
    PyDict(<< << KeyType, PyStr(garment_type) >>,
              << KeyOrigin, PyStr(origin) >>,
              << KeyTs, ts >>,
              << KeyModelId, PyStr(MODEL) >> >>)

\* garment.py _decode_cache_payload, on the reply of a GET: PyNone or the
\* stored string
_decode_cache_payload(raw) ==
    IF raw.kind = "None" THEN PyNone
    ELSE
        LET payload == json_loads(raw.str)
            garment_type ==
                IF payload.kind = "dict" THEN DictGet(payload.items, KeyType)
                ELSE PyNone
            normalized ==
                IF garment_type.kind = "str"
                THEN _normalize_garment_type(garment_type.str)
                ELSE <<>>
        IN
        IF payload.kind # "dict" THEN PyNone
        ELSE IF garment_type.kind # "str" THEN PyNone
        ELSE IF normalized = <<>> THEN PyNone
        ELSE PyDict(DictSet(payload.items, KeyType, PyStr(normalized)))

\* what this system wrote under a key and is still there
WrittenAt(key) == IF key \in DOMAIN wrote THEN wrote[key] ELSE NotWritten

\* the classifier state, which these operations leave alone
program ==
    << config, store, supervisor, _garment_type_cache, _local_singleflight_locks,
       running, call, observed, services >>

\* garment.py _redis_set_payload of the entry built at line 309
RedisSetPayload(p, image_hash, garment_type, ts) ==
    LET key == _cache_key(GARMENT_TYPE_CACHE_VERSION[p], image_hash)
        payload == _build_cache_payload(garment_type, OriginClassifier, ts)
    IN
    /\ GARMENT_TYPE_TTL_SECONDS > 0
    /\ keyspace' = Put(keyspace, key, json_dumps(payload))
    /\ wrote' = Put(wrote, key,
                    [kind |-> "entry", version |-> GARMENT_TYPE_CACHE_VERSION[p],
                     image_hash |-> image_hash, payload |-> payload])
    /\ answered' = NoReply
    /\ UNCHANGED << program, GARMENT_TYPE_CACHE_VERSION, MODEL >>

\* garment.py _redis_get_payload
RedisGetPayload(p, image_hash) ==
    LET key == _cache_key(GARMENT_TYPE_CACHE_VERSION[p], image_hash)
        raw == IF key \in DOMAIN keyspace THEN PyStr(keyspace[key]) ELSE PyNone
    IN
    /\ answered' = [op |-> "get", proc |-> p, image_hash |-> image_hash,
                    payload |-> _decode_cache_payload(raw),
                    written |-> WrittenAt(key)]
    /\ answered' # answered
    /\ UNCHANGED << program, GARMENT_TYPE_CACHE_VERSION, MODEL, keyspace, wrote >>

\* garment.py _acquire_redis_lock: SET NX EX
AcquireRedisLock(p, image_hash, token) ==
    LET key == _lock_key(GARMENT_TYPE_CACHE_VERSION[p], image_hash)
        result == key \notin DOMAIN keyspace
    IN
    /\ answered' = [op |-> "acquire", proc |-> p, image_hash |-> image_hash,
                    acquired |-> result, written |-> WrittenAt(key)]
    /\ answered' # answered
    /\ keyspace' = IF result THEN Put(keyspace, key, token) ELSE keyspace
    /\ wrote' = IF result
                THEN Put(wrote, key,
                         [kind |-> "lock",
                          version |-> GARMENT_TYPE_CACHE_VERSION[p],
                          image_hash |-> image_hash, token |-> token])
                ELSE wrote
    /\ UNCHANGED << program, GARMENT_TYPE_CACHE_VERSION, MODEL >>

\* garment.py _release_redis_lock: the script deletes the key when it holds
\* the token
ReleaseRedisLock(p, image_hash, token) ==
    LET key == _lock_key(GARMENT_TYPE_CACHE_VERSION[p], image_hash) IN
    /\ key \in DOMAIN keyspace
    /\ keyspace[key] = token
    /\ keyspace' = Del(keyspace, key)
    /\ wrote' = Del(wrote, key)
    /\ answered' = NoReply
    /\ UNCHANGED << program, GARMENT_TYPE_CACHE_VERSION, MODEL >>

\* the TTL of a key elapses (both SETs carry ex=)
KeyExpires(key) ==
    /\ key \in DOMAIN keyspace
    /\ keyspace' = Del(keyspace, key)
    /\ wrote' = Del(wrote, key)
    /\ answered' = NoReply
    /\ UNCHANGED << program, GARMENT_TYPE_CACHE_VERSION, MODEL >>

\* the keys the processes can build
Keys ==
    { _cache_key(v, h) : v \in Versions, h \in ImageHashes }
        \cup { _lock_key(v, h) : v \in Versions, h \in ImageHashes }

InitStore ==
    /\ InitProgram
    /\ GARMENT_TYPE_CLASSIFY
    /\ GARMENT_TYPE_TTL_SECONDS > 0
    /\ \A p \in Procs : REDIS_URL[p] # ""
    /\ GARMENT_TYPE_CACHE_VERSION \in [Procs -> Versions]
    /\ MODEL \in ModelIds
    /\ keyspace = EmptyMap
    /\ wrote = EmptyMap
    /\ answered = NoReply
    /\ InitServices

NextStore ==
    \/ \E p \in Procs, h \in ImageHashes, t \in Labels, ts \in Timestamps :
           RedisSetPayload(p, h, t, ts)
    \/ \E p \in Procs, h \in ImageHashes : RedisGetPayload(p, h)
    \/ \E p \in Procs, h \in ImageHashes, token \in Tokens :
           AcquireRedisLock(p, h, token)
    \/ \E p \in Procs, h \in ImageHashes, token \in Tokens :
           ReleaseRedisLock(p, h, token)
    \/ \E key \in Keys : KeyExpires(key)

SpecStore == InitStore /\ [][NextStore]_vars

-----------------------------------------------------------------------------
(* _wait_for_redis_payload on its own, lines 128-153: called with any      *)
(* deadline, passed or not, while another party holds, writes and releases *)
(* as it likes. call[c].deadline counts the sleep intervals left before    *)
(* the deadline; the calls start at the entry of the function and end when *)
(* it returns: with the payload (pc "finally") or with None ("mutex_stage").*)

\* the token of the party that holds the lock
Leader == NumCallers + 1

\* line 132: loop.time() < deadline is false
DeadlinePassed(left) == left = 0

\* line 132 on entry
WaitEnter(c) ==
    /\ call[c].pc = "wait_entry"
    /\ Quiet
    /\ IF DeadlinePassed(call[c].deadline)
       THEN /\ SetCall(c, [call[c] EXCEPT !.pc = "mutex_stage"])
            /\ Keep(c)
       ELSE /\ SetCall(c, [call[c] EXCEPT !.pc = "wait_get", !.attempt = 0])
            /\ UNCHANGED running
    /\ UNCHANGED << config, keyed, store, supervisor, _garment_type_cache,
                    _local_singleflight_locks, observed >>

\* lines 152, 132: the sleep ends after some intervals, and the loop test
WaitSleepEnds(c, slept) ==
    LET left == IF call[c].deadline > slept THEN call[c].deadline - slept ELSE 0 IN
    /\ call[c].pc = "wait_sleep"
    /\ Quiet
    /\ IF DeadlinePassed(left)
       THEN /\ SetCall(c, [call[c] EXCEPT !.pc = "mutex_stage", !.deadline = left])
            /\ Keep(c)
       ELSE /\ SetCall(c, [call[c] EXCEPT !.pc = "wait_get", !.attempt = 0,
                                          !.deadline = left])
            /\ UNCHANGED running
    /\ UNCHANGED << config, keyed, store, supervisor, _garment_type_cache,
                    _local_singleflight_locks, observed >>

\* lines 138, 151, 153: the function has returned to its caller
WaitReturns(c) ==
    /\ call[c].pc \in {"mutex_stage", "finally"}
    /\ Ready(c)
    /\ SetCall(c, Returned(call[c]))
    /\ Yield(c)
    /\ UNCHANGED << config, keyed, store, supervisor, _garment_type_cache,
                    _local_singleflight_locks, observed >>

\* the party that holds the lock writes the entry
LeaderWrites(d, garment_type) ==
    /\ store_lock[d] = Leader
    /\ store_cache[d] = <<>>
    /\ Quiet
    /\ store_cache' = [store_cache EXCEPT ![d] = garment_type]
    /\ UNCHANGED << config, keyed, store_lock, supervisor, _garment_type_cache,
                    _local_singleflight_locks, running, call, observed >>

\* the party that holds the lock releases it, or its lock expires
LeaderReleases(d) ==
    /\ store_lock[d] = Leader
    /\ Quiet
    /\ store_lock' = [store_lock EXCEPT ![d] = 0]
    /\ UNCHANGED << config, keyed, store_cache, supervisor, _garment_type_cache,
                    _local_singleflight_locks, running, call, observed >>

InitWait ==
    /\ GARMENT_TYPE_CLASSIFY = TRUE
    /\ GARMENT_TYPE_TTL_SECONDS = 86400
    /\ REDIS_URL = [p \in Procs |-> "redis://cache"]
    /\ store_cache \in [Digests -> {<<>>, TOP}]
    /\ store_lock \in [Digests -> {0, Leader}]
    /\ _redis_client = [p \in Procs |-> Leader]
    /\ _redis_retry_at = [p \in Procs |-> "None"]
    /\ _redis_connect_lock = [p \in Procs |-> FreeLock]
    /\ _garment_type_cache = [p \in Procs |-> [d \in Digests |-> <<>>]]
    /\ _local_singleflight_locks =
          [p \in Procs |-> [d \in Digests |-> [created |-> FALSE, lock |-> FreeLock]]]
    /\ running = [p \in Procs |-> 0]
    /\ call \in [Callers -> { [NewCall EXCEPT !.pc = "wait_entry", !.proc = p,
                                              !.redis_client = Leader,
                                              !.deadline = left] :
                               p \in Procs, left \in 0..MaxSleeps }]
    /\ classifier_calls = [d \in Digests |-> 0]
    /\ remote_writes = [d \in Digests |-> 0]
    /\ history = {}
    /\ faults = 0
    /\ timeouts = 0
    /\ GARMENT_TYPE_CACHE_VERSION = [p \in Procs |-> << "v", "1" >>]
    /\ MODEL = << "g", "e", "m", "i", "n", "i" >>
    /\ keyspace = EmptyMap
    /\ wrote = EmptyMap
    /\ answered = NoReply
    /\ InitServices

\* one more step of the function, when no operation fails
WaitStep(c) ==
    \/ WaitEnter(c)
    \/ WaitGetOk(c)
    \/ WaitExistsOk(c)
    \/ WaitGet2Ok(c)
    \/ \E slept \in 1..MaxSleeps : WaitSleepEnds(c, slept)
    \/ WaitReturns(c)

NextWait ==
    \/ \E c \in Callers : WaitStep(c)
    \/ \E c \in Callers : RedisAttemptRetry(c, FALSE)
    \/ \E c \in Callers : WaitRaises(c)
    \/ \E d \in Digests, t \in Labels : LeaderWrites(d, t)
    \/ \E d \in Digests : LeaderReleases(d)

SpecWait ==
    /\ InitWait
    /\ [][NextWait]_vars
    /\ \A c \in Callers : WF_vars(WaitStep(c))

-----------------------------------------------------------------------------
(* The connection supervisor on its own: get_redis_client and              *)
(* record_redis_failure under callers that ask for the handle, run an      *)
(* operation on it, report its failure, and ask again                      *)

\* how many times one caller asks for the handle
MaxCalls == 2

\* the backoff of process p armed by a failure report has not run out yet
\* (the report stays "armed" until its backoffUntil is reached)
WindowOpen(p) == \E b \in Callers : call[b].armed /\ call[b].proc = p

\* a caller of process p asks for the shared handle
Asks(c, p) ==
    /\ call[c].pc = "idle"
    /\ call[c].round = 0 \/ call[c].proc = p
    /\ Quiet
    /\ SetCall(c, [call[c] EXCEPT !.pc = "get_client", !.proc = p, !.failed = FALSE])
    /\ running' = [running EXCEPT ![p] = c]
    /\ UNCHANGED << config, keyed, store, supervisor, _garment_type_cache,
                    _local_singleflight_locks, observed >>

\* the caller got a handle and awaits an operation on it
Uses(c) ==
    /\ call[c].pc = "after_client"
    /\ call[c].redis_client # 0
    /\ Ready(c)
    /\ SetCall(c, [call[c] EXCEPT !.pc = "using"])
    /\ Yield(c)
    /\ UNCHANGED << config, keyed, store, supervisor, _garment_type_cache,
                    _local_singleflight_locks, observed >>

\* the operation fails on the caller's handle and the caller reports it
OperationFails(c) ==
    /\ call[c].pc = "using"
    /\ Quiet
    /\ record_redis_failure(c)
    /\ SetCall(c, [call[c] EXCEPT !.pc = "leaving", !.redis_client = 0,
                                  !.failed = TRUE, !.armed = TRUE,
                                  !.used = call[c].redis_client,
                                  !.dropped = _redis_client[ProcOf(c)]])
    /\ UNCHANGED << config, keyed, store, _garment_type_cache,
                    _local_singleflight_locks, observed >>

\* the operation succeeds
OperationEnds(c) ==
    /\ call[c].pc = "using"
    /\ Quiet
    /\ SetCall(c, [call[c] EXCEPT !.pc = "leaving", !.redis_client = 0])
    /\ Keep(c)
    /\ UNCHANGED << config, keyed, store, supervisor, _garment_type_cache,
                    _local_singleflight_locks, observed >>

\* the caller is done with this handle; it may ask again later
Leaves(c) ==
    /\ \/ call[c].pc = "leaving"
       \/ call[c].pc = "after_client" /\ call[c].redis_client = 0
    /\ Ready(c)
    /\ SetCall(c, [call[c] EXCEPT
                     !.pc = IF call[c].round + 1 < MaxCalls THEN "idle" ELSE "done",
                     !.round = call[c].round + 1,
                     !.redis_client = 0])
    /\ Yield(c)
    /\ UNCHANGED << config, keyed, store, supervisor, _garment_type_cache,
                    _local_singleflight_locks, observed >>

\* the clock of process p reaches the backoffUntil of its reports
BackoffUntilReached(p) ==
    /\ WindowOpen(p) \/ _redis_retry_at[p] = "future"
    /\ Quiet
    /\ _redis_retry_at' = [_redis_retry_at EXCEPT
                             ![p] = IF @ = "future" THEN "past" ELSE @]
    /\ call' = [b \in Callers |->
                  IF call[b].proc = p THEN [call[b] EXCEPT !.armed = FALSE]
                  ELSE call[b]]
    /\ Elapse({})
    /\ UNCHANGED << config, keyed, store, _redis_client, _redis_connect_lock,
                    _garment_type_cache, _local_singleflight_locks, running,
                    classifier_calls, remote_writes, faults >>

NextSupervisor ==
    \/ \E c \in Callers, p \in Procs : Asks(c, p)
    \/ \E c \in Callers : GetRedisClient(c)
    \/ \E c \in Callers : ConnectLockAcquired(c)
    \/ \E c \in Callers : PingOk(c)
    \/ \E c \in Callers : PingFails(c)
    \/ \E c \in Callers : PingClosed(c)
    \/ \E c \in Callers : Uses(c)
    \/ \E c \in Callers : OperationFails(c)
    \/ \E c \in Callers : OperationEnds(c)
    \/ \E c \in Callers : Leaves(c)
    \/ \E p \in Procs : BackoffUntilReached(p)

SpecSupervisor == InitLive /\ [][NextSupervisor]_vars

-----------------------------------------------------------------------------
(* The program started on a store another writer left a value in: the      *)
(* value key of the digest holds a string the program would never write    *)

\* the digest of the calls, as the characters of its key
DigestChars == << "a", "b", "c", "1", "2", "3" >>

\* not JSON; JSON but not an object; an object without "type"; an object
\* whose "type" is not a string; an object whose "type" is no label
ForeignValues ==
    { << "o", "o", "p", "s" >>,
      json_dumps(PyStr(TOP)),
      json_dumps(PyDict(<< << KeyOrigin, PyStr(OriginClassifier) >> >>)),
      json_dumps(PyDict(<< << KeyType, PyBool(TRUE) >> >>)),
      json_dumps(PyDict(<< << KeyType, PyStr(<< "h", "a", "t" >>) >> >>)) }

\* the text under "type" of a stored string, if it has one: what the value
\* key holds as the program's reads see it
TypeTextOf(raw) ==
    LET payload == json_loads(raw)
        t == IF payload.kind = "dict" THEN DictGet(payload.items, KeyType) ELSE PyNone
    IN IF t.kind = "str" THEN t.str ELSE <<>>

\* the string under the value key of the digest
StoredRaw ==
    LET key == _cache_key(<< "v", "1" >>, DigestChars) IN
    IF key \in DOMAIN keyspace THEN PyStr(keyspace[key]) ELSE PyNone

InitForeign ==
    /\ GARMENT_TYPE_CLASSIFY = TRUE
    /\ GARMENT_TYPE_TTL_SECONDS = 86400
    /\ REDIS_URL = [p \in Procs |-> "redis://cache"]
    /\ \E raw \in ForeignValues :
          /\ keyspace = Put(EmptyMap, _cache_key(<< "v", "1" >>, DigestChars), raw)
          /\ store_cache = [d \in Digests |-> TypeTextOf(raw)]
    /\ store_lock = [d \in Digests |-> 0]
    /\ _redis_client = [p \in Procs |-> 0]
    /\ _redis_retry_at = [p \in Procs |-> "None"]
    /\ _redis_connect_lock = [p \in Procs |-> FreeLock]
    /\ _garment_type_cache = [p \in Procs |-> [d \in Digests |-> <<>>]]
    /\ _local_singleflight_locks =
          [p \in Procs |-> [d \in Digests |-> [created |-> FALSE, lock |-> FreeLock]]]
    /\ running = [p \in Procs |-> 0]
    /\ call = [c \in Callers |-> NewCall]
    /\ classifier_calls = [d \in Digests |-> 0]
    /\ remote_writes = [d \in Digests |-> 0]
    /\ history = {}
    /\ faults = 0
    /\ timeouts = 0
    /\ GARMENT_TYPE_CACHE_VERSION = [p \in Procs |-> << "v", "1" >>]
    /\ MODEL = << "g", "e", "m", "i", "n", "i" >>
    /\ wrote = EmptyMap
    /\ answered = NoReply
    /\ InitServices

SpecForeign == InitForeign /\ [][Next]_vars

-----------------------------------------------------------------------------
(* services/editing.py: resolve_listing_context over the table listings    *)

\* the garment program at rest, configured, beside the services
ProgramAtRest ==
    /\ InitProgram
    /\ GARMENT_TYPE_CLASSIFY = TRUE
    /\ GARMENT_TYPE_TTL_SECONDS = 86400
    /\ REDIS_URL = [p \in Procs |-> "redis://cache"]
    /\ GARMENT_TYPE_CACHE_VERSION = [p \in Procs |-> << "v", "1" >>]
    /\ MODEL = << "g", "e", "m", "i", "n", "i" >>
    /\ keyspace = EmptyMap
    /\ wrote = EmptyMap
    /\ answered = NoReply

garment ==
    << config, store, supervisor, _garment_type_cache, _local_singleflight_locks,
       running, call, observed, GARMENT_TYPE_CACHE_VERSION, MODEL, keyspace,
       wrote, answered >>

\* "" stands for None and for the empty string alike: both are falsy
UserIds == {"user-1", "user-2"}
ListingIds == {"listing-1", "listing-2"}
S3Keys == {"s3-key", "s3-other"}

\* any listing, whoever owns it
AnyOwner(row, user_id) == TRUE

\* a listing's owner equals the requesting user: row[0] != user_id, line 157
OwnerMatches(row, user_id) == row.user_id = user_id

\* what resolve_listing_context does with its arguments and the row the
\* SELECT gives (none: id not in the table)
resolve_listing_context(listing_id, user_id, required) ==
    LET found == listing_id \in DOMAIN listings
        row == listings[listing_id]
    IN
    IF listing_id = ""
    THEN IF required
         THEN [kind |-> "raised", status_code |-> 400]
         ELSE [kind |-> "returned", value |-> [kind |-> "None"]]
    ELSE IF user_id = ""
    THEN IF required
         THEN [kind |-> "raised", status_code |-> 404]
         ELSE [kind |-> "returned", value |-> [kind |-> "None"]]
    ELSE IF ~found \/ ~OwnerMatches(row, user_id)
    THEN IF required
         THEN [kind |-> "raised", status_code |-> 404]
         ELSE [kind |-> "returned", value |-> [kind |-> "None"]]
    ELSE [kind |-> "returned",
          value |-> [kind |-> "ListingContext", id |-> listing_id,
                     user_id |-> row.user_id, source_s3_key |-> row.source_s3_key]]

\* a route resolves a listing for a user
ResolveListingContext(listing_id, user_id, required) ==
    /\ context' = [op |-> "resolve", listing_id |-> listing_id, user_id |-> user_id,
                   required |-> required,
                   outcome |-> resolve_listing_context(listing_id, user_id, required)]
    /\ UNCHANGED << garment, listings, inputs, subscription, plan, usage, now, summary >>

\* routes/listing.py: a user creates a listing
ListingCreated(listing_id, user_id, source_s3_key) ==
    /\ listing_id \notin DOMAIN listings
    /\ listings' = Put(listings, listing_id,
                       [user_id |-> user_id, source_s3_key |-> source_s3_key])
    /\ context' = NotCalled
    /\ UNCHANGED << garment, inputs, subscription, plan, usage, now, summary >>

InitListings == ProgramAtRest /\ InitServices

NextListings ==
    \/ \E l \in ListingIds \cup {""}, u \in UserIds \cup {""}, required \in BOOLEAN :
           ResolveListingContext(l, u, required)
    \/ \E l \in ListingIds, u \in UserIds, k \in S3Keys : ListingCreated(l, u, k)

SpecListings == InitListings /\ [][NextListings]_vars

-----------------------------------------------------------------------------
(* services/editing.py: normalize_edit_inputs; utils/normalization.py      *)

\* the strings of the edit options, as their characters
WOMAN == << "w", "o", "m", "a", "n" >>
MAN == << "m", "a", "n" >>
STUDIO == << "s", "t", "u", "d", "i", "o" >>
STREET == << "s", "t", "r", "e", "e", "t" >>
BED == << "b", "e", "d" >>
BEACH == << "b", "e", "a", "c", "h" >>
INDOOR == << "i", "n", "d", "o", "o", "r" >>
STANDING == << "s", "t", "a", "n", "d", "i", "n", "g" >>
SITTING == << "s", "i", "t", "t", "i", "n", "g" >>
LYING == << "l", "y", "i", "n", "g", " ", "d", "o", "w", "n" >>
WALKING == << "w", "a", "l", "k", "i", "n", "g" >>
GENDER_MAN_TYPED == << " ", "M", "a", "n" >>
GENDER_UNKNOWN == << "u", "n", "k", "n", "o", "w", "n" >>
STREET_TYPED == << "S", "t", "r", "e", "e", "t", " " >>
ENV_UNKNOWN == << "?" >>
SITTING_TYPED == << " ", "S", "i", "t", "t", "i", "n", "g", " " >>
WALKING_TYPED == << "W", "a", "l", "k", "i", "n", "g" >>
LYING_TYPED == << "L", "y", "i", "n", "g", " ", "D", "o", "w", "n" >>
POSE_UNKNOWN == << "f", "l", "y", "i", "n", "g" >>
EXTRA_TYPED == << " ", "w", "e", "t", " " >>
EXTRA_LONG == << " ", " ", "s", "o", "m", "e", "t", "h", "i", "n", "g", " ", "e", "x", "t", "r", "a", " ", " " >>

\* the longest list of poses given, and the largest max_poses
MaxPoseInputs == 3
MaxPoses == 3

\* extra is cut to this many characters
ExtraLimit == 200

Elements(seq) == { seq[i] : i \in 1..Len(seq) }

Genders == << WOMAN, MAN >>
Environments == << STUDIO, STREET, BED, BEACH, INDOOR >>
allowed_poses == << STANDING, SITTING, LYING, WALKING >>

\* normalize_choice of utils/normalization.py; None is <<>>
normalize_choice(value, allowed, default) ==
    LET v == Lower(Strip(value)) IN
    IF v \in Elements(allowed) THEN v ELSE default

\* the for loop of lines 104-109 from the i-th pose on
RECURSIVE PoseLoop(_, _, _, _)
PoseLoop(poses, i, normalized_poses, max_poses) ==
    IF i > Len(poses) THEN normalized_poses
    ELSE
        LET pose_norm == normalize_choice(poses[i], allowed_poses, <<>>)
            appended ==
                IF pose_norm # <<>> /\ pose_norm \notin Elements(normalized_poses)
                THEN Append(normalized_poses, pose_norm)
                ELSE normalized_poses
        IN
        IF Len(appended) >= max_poses THEN appended
        ELSE PoseLoop(poses, i + 1, appended, max_poses)

\* poses is None, one string or a sequence of strings
PoseIterable(poses) ==
    CASE poses.kind = "None" -> <<>>
      [] poses.kind = "str" -> << poses.str >>
      [] OTHER -> poses.list

normalize_edit_inputs(gender, environment, poses, extra, default_pose, max_poses) ==
    LET looped == PoseLoop(PoseIterable(poses), 1, <<>>, max_poses)
        normalized_poses ==
            IF looped = <<>> /\ default_pose # <<>> THEN << default_pose >> ELSE looped
        stripped == Strip(extra)
    IN
    [ gender |-> normalize_choice(gender, Genders, WOMAN),
      environment |-> normalize_choice(environment, Environments, STUDIO),
      poses |-> normalized_poses,
      primary_pose |-> IF normalized_poses # <<>> THEN normalized_poses[1]
                       ELSE default_pose,
      extra |-> IF Len(stripped) > ExtraLimit THEN SubSeq(stripped, 1, ExtraLimit)
                ELSE stripped ]

\* what callers pass: values as typed by users, None as <<>>
GenderInputs == { WOMAN, GENDER_MAN_TYPED, GENDER_UNKNOWN, <<>> }
EnvironmentInputs == { STREET_TYPED, BEACH, ENV_UNKNOWN }
PoseStrings == { SITTING, SITTING_TYPED, WALKING_TYPED, LYING_TYPED, POSE_UNKNOWN, <<>> }
ExtraInputs == { <<>>, EXTRA_TYPED, EXTRA_LONG }
DefaultPoses == { <<>>, STANDING }

RECURSIVE PoseLists(_)
PoseLists(n) ==
    IF n = 0 THEN { <<>> }
    ELSE PoseLists(n - 1)
            \cup { Append(l, x) : l \in { m \in PoseLists(n - 1) : Len(m) = n - 1 },
                                  x \in PoseStrings }

PoseInputs ==
    { [kind |-> "None"] }
        \cup { [kind |-> "str", str |-> x] : x \in PoseStrings }
        \cup { [kind |-> "list", list |-> l] : l \in PoseLists(MaxPoseInputs) }

\* the arguments of one call, before the call
GivenInputs ==
    [ op : {"given"}, gender : GenderInputs, environment : EnvironmentInputs,
      poses : PoseInputs, extra : ExtraInputs, default_pose : DefaultPoses,
      max_poses : 0..MaxPoses ]

NormalizeEditInputs ==
    /\ inputs.op = "given"
    /\ inputs' = [inputs EXCEPT !.op = "normalize"]
                    @@ [result |-> normalize_edit_inputs(inputs.gender, inputs.environment,
                                                         inputs.poses, inputs.extra,
                                                         inputs.default_pose,
                                                         inputs.max_poses)]
    /\ UNCHANGED << garment, listings, context, subscription, plan, usage, now, summary >>

InitInputs ==
    /\ ProgramAtRest
    /\ listings = [l \in {} |-> 0]
    /\ context = NotCalled
    /\ inputs \in GivenInputs
    /\ subscription = [kind |-> "none"]
    /\ plan = [kind |-> "none"]
    /\ usage = [s \in {} |-> 0]
    /\ now = 0
    /\ summary = NotCalled

NextInputs == NormalizeEditInputs

SpecInputs == InitInputs /\ [][NextInputs]_vars

-----------------------------------------------------------------------------
(* services/usage.py: the quota of one user. The tables hold the rows of    *)
(* that user: one subscription, the plan it names, one usage counter per    *)
(* period_start.                                                            *)

\* the largest allowance of a plan, the largest amount asked, the last tick
\* of the clock
MaxAllowance == 2
MaxAmount == 2
MaxNow == 3

DateTime(t) == [kind |-> "datetime", t |-> t]

_ACTIVE_STATUSES == { "active", "trialing", "past_due" }

\* the plan row that session.get(SubscriptionPlan, plan_id) finds; a
\* subscription without plan_id has ""
PlanOf(sub) ==
    IF sub # PyNone /\ sub.plan_id # "" /\ plan # PyNone /\ plan.id = sub.plan_id
    THEN plan ELSE PyNone

\* line 230: the window of the record has ended
WindowEnded(period_end, at) == period_end # PyNone /\ period_end.t <= at

\* _ensure_usage_record: the usage table it leaves in the session and the
\* period_start of the record it returns (None when it returns none)
_ensure_usage_record(table, sub, at) ==
    IF sub = PyNone \/ sub.current_period_start = PyNone
    THEN [table |-> table, record |-> PyNone]
    ELSE
        LET period_start == sub.current_period_start.t
            period_end == sub.current_period_end
        IN
        IF period_start \notin DOMAIN table
        THEN [table |-> Put(table, period_start, [period_end |-> period_end, used |-> 0]),
              record |-> DateTime(period_start)]
        ELSE
            [table |-> [table EXCEPT ![period_start] =
                            [period_end |-> period_end,
                             used |-> IF WindowEnded(period_end, at) THEN 0 ELSE @.used]],
             record |-> DateTime(period_start)]

\* str.lower on the statuses an event carries
LowerStatus(status) ==
    CASE status = "ACTIVE" -> "active"
      [] status = "Past_Due" -> "past_due"
      [] OTHER -> status

_is_subscription_active(sub) ==
    sub # PyNone /\ LowerStatus(sub.status) \in _ACTIVE_STATUSES

_build_summary(sub, pl, table, record) ==
    LET allowance ==
            IF ~_is_subscription_active(sub) THEN 0
            ELSE IF pl # PyNone THEN Max(pl.allowance, 0) ELSE 0
        used == IF record # PyNone THEN table[record.t].used ELSE 0
    IN [allowance |-> allowance, used |-> used, remaining |-> Max(allowance - used, 0)]

\* consume_quota_with_session on a session that starts from the committed
\* tables: how it ends, the summary it carries and the usage table it
\* leaves in the session
consume_quota_with_session(amount) ==
    LET pl == PlanOf(subscription)
        ensured == _ensure_usage_record(usage, subscription, now)
        first == _build_summary(subscription, pl, ensured.table, ensured.record)
    IN
    IF amount > 0 /\ first.remaining < amount
    THEN [kind |-> "raised", summary |-> first, table |-> ensured.table]
    ELSE IF amount <= 0
    THEN [kind |-> "returned", summary |-> first, table |-> ensured.table]
    ELSE IF subscription = PyNone \/ ensured.record = PyNone
    THEN [kind |-> "raised", summary |-> first, table |-> ensured.table]
    ELSE
        LET added == [ensured.table EXCEPT ![ensured.record.t].used = @ + amount]
        IN [kind |-> "returned",
            summary |-> _build_summary(subscription, pl, added, ensured.record),
            table |-> added]

\* consume_quota, and the transaction of create_listing: db_session commits
\* what the session holds when the call returns and rolls it back when the
\* call raises
ConsumeQuota(amount) ==
    LET done == consume_quota_with_session(amount) IN
    /\ usage' = IF done.kind = "returned" THEN done.table ELSE usage
    /\ summary' = [op |-> "consume", amount |-> amount, outcome |-> done.kind,
                   summary |-> done.summary]
    /\ UNCHANGED << garment, listings, context, inputs, subscription, plan, now >>

\* get_usage_summary (ensure_can_consume calls it): it commits what
\* _ensure_usage_record did
GetUsageSummary ==
    LET ensured == _ensure_usage_record(usage, subscription, now) IN
    /\ usage' = ensured.table
    /\ summary' = [op |-> "summary",
                   summary |-> _build_summary(subscription, PlanOf(subscription),
                                              ensured.table, ensured.record)]
    /\ UNCHANGED << garment, listings, context, inputs, subscription, plan, now >>

\* the billing periods a subscription event can carry
Periods ==
    { [start |-> PyNone, end |-> PyNone], [start |-> DateTime(1), end |-> PyNone] }
        \cup { [start |-> DateTime(t), end |-> DateTime(t + 1)] : t \in 1..(MaxNow - 1) }

\* _handle_subscription_event of routes/billing.py: the subscription row
\* takes the fields of the event; the plan of the event is the plan of the
\* table
SubscriptionEvent(status, plan_id, period) ==
    /\ subscription' = [kind |-> "Subscription", status |-> status, plan_id |-> plan_id,
                        current_period_start |-> period.start,
                        current_period_end |-> period.end]
    /\ summary' = NotCalled
    /\ UNCHANGED << garment, listings, context, inputs, plan, usage, now >>

\* _now_utc moves on
Tick ==
    /\ now < MaxNow
    /\ now' = now + 1
    /\ summary' = NotCalled
    /\ UNCHANGED << garment, listings, context, inputs, subscription, plan, usage >>

Plans ==
    { PyNone } \cup { [kind |-> "SubscriptionPlan", id |-> "pro", allowance |-> a] :
                        a \in (0 - 1)..MaxAllowance }

InitUsage ==
    /\ ProgramAtRest
    /\ listings = [l \in {} |-> 0]
    /\ context = NotCalled
    /\ inputs = NotCalled
    /\ subscription = PyNone
    /\ plan \in Plans
    /\ usage = [s \in {} |-> 0]
    /\ now = 0
    /\ summary = NotCalled

NextUsage ==
    \/ \E amount \in 0..MaxAmount : ConsumeQuota(amount)
    \/ GetUsageSummary
    \/ \E status \in { "active", "ACTIVE", "canceled" }, plan_id \in { "pro", "" },
          period \in Periods : SubscriptionEvent(status, plan_id, period)
    \/ Tick

SpecUsage == InitUsage /\ [][NextUsage]_vars

-----------------------------------------------------------------------------
(* Properties                                                              *)

\* everything a call does not own
globals ==
    << config, keyed, store, supervisor, _garment_type_cache,
       _local_singleflight_locks, running, observed >>

\* no remote operation has failed, no lock or entry has expired under a call,
\* no follower has reached its deadline, entries are kept, and every process
\* has a store configured
NoFailureNoExpiry ==
    /\ faults = 0
    /\ history = {}
    /\ GARMENT_TYPE_TTL_SECONDS > 0
    /\ \A p \in Procs : REDIS_URL[p] # ""

\* C1: with no remote failure, no lock expiry, no follower deadline and a
\* positive entry TTL, the callers of one uncached digest, in one process or
\* in several, invoke the external classifier at most once between them.
C1_ClassifierAtMostOnce ==
    NoFailureNoExpiry => \A d \in Digests : classifier_calls[d] <= 1

\* C1 happens: the leader of one process is waiting for the classifier's
\* answer while a caller of the other process polls the store
C1_Witness ==
    /\ NoFailureNoExpiry
    /\ \E c1, c2 \in Callers :
          /\ call[c1].proc # call[c2].proc
          /\ call[c1].pc = "classify"
          /\ call[c2].pc = "wait_sleep"
          /\ classifier_calls[call[c1].image_hash] = 1

\* C2: whatever the store does (never configured, unreachable, failing mid
\* operation, in backoff), a call raises nothing and returns one of the three
\* labels, and a remote write that fails after the label was computed leaves
\* that label as the result.
C2_DegradesGracefully ==
    \A c \in Callers :
        /\ ~call[c].raised
        /\ call[c].pc = "done" => call[c].result \in Labels
        /\ (call[c].pc = "finally" /\ call[c].classifier # "none")
              => /\ call[c].garment_type \in Labels
                 /\ call[c].result = call[c].garment_type

\* C2 happens: the classifier answered "bottom", the remote write failed on
\* every attempt, the handle was dropped, and the call is about to return
C2_Witness ==
    \E c \in Callers :
        /\ call[c].pc = "finally"
        /\ call[c].classifier = "answered"
        /\ call[c].redis_client # 0
        /\ ~call[c].wrote
        /\ _redis_retry_at[call[c].proc] = "future"
        /\ _redis_client[call[c].proc] = 0
        /\ call[c].result = BOTTOM

\* C3: no call ever raises, and a call whose classifier raised after its own
\* retries returns 'full'.
C3_NeverRaises ==
    /\ [](\A c \in Callers : ~call[c].raised)
    /\ [][\A c \in Callers :
            (call[c].classifier = "raised" /\ call'[c].pc = "done")
                => call'[c].result = FULL /\ ~call'[c].raised]_vars

\* C3 happens: the classifier raised and the call is leaving with 'full'
C3_Witness ==
    \E c \in Callers :
        /\ call[c].classifier = "raised"
        /\ call[c].pc \in {"finally", "release"}
        /\ call[c].result = FULL

\* C4: a call whose override normalizes to a label returns that label at
\* once, flag on or off, and reads or writes nothing else: not L1, not the
\* store, not a lock, not the supervisor, not the classifier.
C4_OverrideShortCircuits ==
    [][\A c \in Callers :
         (/\ call[c].pc = "idle"
          /\ call'[c].pc # "idle"
          /\ NormalizedOverride(call'[c].override) # <<>>)
            => /\ call'[c] = Returned([call'[c] EXCEPT
                                 !.result = NormalizedOverride(call'[c].override)])
               /\ UNCHANGED globals]_vars

\* C4 happens: with the flag off, a call given the override "Top" has
\* returned 'top'
C4_Witness ==
    /\ ~GARMENT_TYPE_CLASSIFY
    /\ \E c \in Callers :
          /\ call[c].pc = "done"
          /\ call[c].override = <<"T", "o", "p">>
          /\ call[c].result = TOP

\* C5: a call that has returned holds no local mutex, and once every call
\* has returned every local mutex is free with nobody waiting for it,
\* whatever happened on the way (a result, a classifier failure, a failed
\* lock attempt, a follower's deadline, a hit after taking the mutex).
C5_LocalMutexReleased ==
    /\ \A c \in Callers : \A p \in Procs : \A d \in Digests :
          call[c].pc = "done" => _local_singleflight_locks[p][d].lock.locked # c
    /\ (\A c \in Callers : ~InFlight(c))
          => \A p \in Procs : \A d \in Digests :
                _local_singleflight_locks[p][d].lock = FreeLock

\* C5 happens: every call has returned, one of them after a remote failure
\* and after taking the mutex of its process
C5_Witness ==
    /\ \A c \in Callers : call[c].pc = "done"
    /\ faults > 0
    /\ \E p \in Procs : \E d \in Digests : _local_singleflight_locks[p][d].created

\* the calls that hold the distributed lock of digest d: their acquire was
\* answered true and they have not yet issued their release
Holders(d) ==
    { c \in Callers :
        /\ call[c].image_hash = d
        /\ call[c].redis_lock_acquired
        /\ call[c].pc \notin {"release", "done"} }

\* C6: the acquire is an atomic set-if-absent: it is answered true only when
\* the lock key was absent, and leaves the caller's token there; so while no
\* lock has expired under its holder, at most one call of all processes
\* holds the lock of a digest, and the key carries that call's token.
C6_LockIsSetIfAbsent ==
    /\ []("lock_expired" \notin history =>
             \A d \in Digests :
                /\ Cardinality(Holders(d)) <= 1
                /\ \A c \in Holders(d) : store_lock[d] = c)
    /\ [][\A c \in Callers :
            (~call[c].redis_lock_acquired /\ call'[c].redis_lock_acquired)
                => /\ store_lock[call[c].image_hash] = 0
                   /\ store_lock'[call[c].image_hash] = c]_vars

\* C6 happens: one call holds the lock and computes, the acquire of another
\* call in the other process was answered false and it polls
C6_Witness ==
    \E c1, c2 \in Callers :
        /\ call[c1].proc # call[c2].proc
        /\ c1 \in Holders(call[c1].image_hash)
        /\ store_lock[call[c1].image_hash] = c1
        /\ call[c1].pc \in {"invoke", "classify"}
        /\ call[c2].pc \in WaitPcs
        /\ ~call[c2].redis_lock_acquired

\* C7: the lock key is deleted only by its expiry or by the release of the
\* call whose token it carries, so a leader whose lock expired and was taken
\* again by another call cannot delete that call's lock; and a call whose
\* acquire was not answered true never issues a release.
C7_ReleaseComparesToken ==
    /\ [](\A c \in Callers :
            call[c].pc = "release"
                => call[c].redis_lock_acquired /\ call[c].lock_client # 0)
    /\ [][\A d \in Digests :
            (store_lock[d] # 0 /\ store_lock'[d] # store_lock[d])
                => \/ /\ timeouts' = timeouts + 1
                      /\ store_lock'[d] = 0
                   \/ /\ call[store_lock[d]].pc = "release"
                      /\ call'[store_lock[d]].pc \in {"release", "done"}
                      /\ store_lock'[d] = 0]_vars

\* C7 happens: the lock of the first leader expired while it computed, the
\* other call acquired it, and the first leader has since released and
\* returned: the key still carries the other call's token
C7_Witness ==
    /\ "lock_expired" \in history
    /\ \E c1, c2 \in Callers :
          /\ c1 # c2
          /\ call[c1].pc = "done"
          /\ call[c2].redis_lock_acquired
          /\ call[c2].pc \in {"get2", "invoke", "classify", "set", "finally"}
          /\ store_lock[call[c2].image_hash] = c2

CachePcs == RemotePcs \ {"release"}

\* C11, as the specification states it: once a remote operation of a call
\* has failed after its retries, the failure has been recorded and the call
\* issues no further GET, SET, SET NX or EXISTS, on every path, a failure in
\* the follower's polling loop included.
C11_NoRemoteAfterFailure ==
    \A c \in Callers : call[c].failed => call[c].pc \notin CachePcs

\* C12: while the backoff runs (now < _redis_retry_at), get_redis_client
\* starts no connection attempt and returns None to every caller, the
\* callers queued on the connect lock while the failing attempt armed the
\* backoff included; and no shared handle exists while the backoff runs.
C12_NoConnectInBackoff ==
    /\ [](\A p \in Procs : _redis_retry_at[p] = "future" => _redis_client[p] = 0)
    /\ [][\A c \in Callers :
            (/\ call[c].pc \in {"get_client", "connect_wait"}
             /\ _redis_retry_at[ProcOf(c)] = "future")
                => /\ call'[c].pc # "ping"
                   /\ call'[c].pc = "after_client" => call'[c].redis_client = 0]_vars

\* C12 happens: the handshake of one call has failed and armed the backoff,
\* its candidate is closing, and another call of the process is queued on
\* the connect lock
C12_Witness ==
    \E c1, c2 \in Callers :
        /\ call[c1].proc = call[c2].proc
        /\ call[c1].pc = "ping_close"
        /\ call[c2].pc = "connect_wait"
        /\ _redis_retry_at[call[c1].proc] = "future"

\* C13: a stored lock does not stay: whether its holder released it, failed
\* to release it or stopped for ever, the key is eventually absent or taken
\* by a new acquire, and a call polling behind it eventually leaves its
\* wait.
C13_LockEventuallyAbsent ==
    /\ \A d \in Digests : \A t \in Callers :
          (store_lock[d] = t) ~> (store_lock[d] # t)
    /\ \A c \in Callers :
          (call[c].pc \in WaitPcs \cup {"wait_sleep"})
              ~> (call[c].pc \notin WaitPcs \cup {"wait_sleep"})

\* C13 happens: the release of a leader failed, the leader has returned and
\* its token is still stored, while another call polls behind it
C13_Witness ==
    \E c1, c2 \in Callers :
        /\ call[c1].pc = "done"
        /\ store_lock[call[c1].image_hash] = c1
        /\ call[c2].image_hash = call[c1].image_hash
        /\ call[c2].pc \in WaitPcs \cup {"wait_sleep"}

\* C14: an entry written by _redis_set_payload under the key of (digest,
\* version) and still stored is returned unchanged (label, origin, timestamp
\* and model id) by a _redis_get_payload of the same (digest, version); and
\* decoding the encoded form of any entry with a valid label gives the entry
C14_WrittenEntryReadBack ==
    /\ ( /\ answered.op = "get"
         /\ answered.written.kind = "entry"
         /\ answered.written.version = GARMENT_TYPE_CACHE_VERSION[answered.proc]
         /\ answered.written.image_hash = answered.image_hash )
       => answered.payload = answered.written.payload
    /\ \A t \in Labels, ts \in Timestamps :
          LET entry == _build_cache_payload(t, OriginClassifier, ts) IN
          _decode_cache_payload(PyStr(json_dumps(entry))) = entry

\* a read returned an entry whose model id has a quote and a backslash and
\* whose timestamp has a fraction
C14_Witness ==
    /\ answered.op = "get"
    /\ answered.written.kind = "entry"
    /\ answered.written.version = GARMENT_TYPE_CACHE_VERSION[answered.proc]
    /\ answered.payload.kind = "dict"
    /\ DictGet(answered.payload.items, KeyModelId) = PyStr(<< "g", "\"", "\\" >>)
    /\ DictGet(answered.payload.items, KeyTs) = PyNum(1700, << "0", "5" >>)

C16_LabelsAreValid ==
    /\ \A c \in Callers :
          (call[c].pc = "done" /\ ~call[c].raised) => call[c].result \in Labels
    /\ \A p \in Procs, d \in Digests :
          _garment_type_cache[p][d] # <<>> => _garment_type_cache[p][d] \in Labels
    /\ \A d \in Digests :
          store_cache[d] # <<>> => /\ store_cache[d] \in Labels
                                   /\ _redis_get_payload(d) \in Labels

\* two remote writes for one digest after the lock expired under a call, the
\* entry stored and in an L1 map, and a call returned
C16_Witness ==
    /\ "lock_expired" \in history
    /\ \E d \in Digests :
          /\ remote_writes[d] = 2
          /\ store_cache[d] # <<>>
          /\ \E p \in Procs : _garment_type_cache[p][d] # <<>>
          /\ \E c \in Callers : call[c].pc = "done" /\ call[c].image_hash = d

C18_WriteThenRelease ==
    /\ [][\A c \in Callers :
            /\ call[c].pc = "release" => call'[c].pc \in {"release", "done"}
            /\ (call[c].redis_lock_acquired /\ call'[c].pc = "done")
                  => call[c].pc = "release"
            /\ ( /\ call[c].pc = "release"
                 /\ call'[c].pc = "done"
                 /\ faults' = 0
                 /\ "lock_expired" \notin history' )
                  => store_lock'[call[c].image_hash] = 0]_vars
    /\ [](\A c \in Callers :
            /\ ( /\ call[c].pc = "release"
                 /\ call[c].classifier # "none"
                 /\ WritesRemote(call[c].redis_client, GARMENT_TYPE_TTL_SECONDS) )
                  => call[c].wrote \/ call[c].failed
            /\ ( /\ call[c].pc = "done"
                 /\ faults = 0
                 /\ "lock_expired" \notin history )
                  => store_lock[call[c].image_hash] # c)

\* a leader computed the label, wrote the entry, released and returned; no
\* operation failed, nothing expired, and the lock key is absent
C18_Witness ==
    /\ faults = 0
    /\ history = {}
    /\ \E c \in Callers :
          /\ call[c].pc = "done"
          /\ call[c].classifier = "answered"
          /\ call[c].wrote
          /\ store_cache[call[c].image_hash] = call[c].result
          /\ store_lock[call[c].image_hash] = 0

\* C19: a follower that saw the lock gone makes one final read of the entry,
\* and its wait gives nothing only after a final read that found no entry,
\* a passed deadline or a failed operation; and a follower whose leader wrote
\* its entry and released before the follower's deadline, with no remote
\* operation failed and no lock or entry expired under a call, returns that
\* entry's label, has it in the L1 map of its process and has not invoked
\* the classifier
C19_FollowerGetsLeaderEntry ==
    /\ [][\A c \in Callers :
            /\ ( /\ call[c].pc = "wait_exists"
                 /\ call'[c].pc # "wait_exists"
                 /\ store_lock[call[c].image_hash] = 0
                 /\ ~call'[c].failed )
                  => call'[c].pc = "wait_get2"
            /\ ( /\ call[c].pc \in WaitPcs
                 /\ call'[c].pc = "mutex_stage"
                 /\ ~call'[c].failed )
                  => /\ call[c].pc = "wait_get2"
                     /\ _redis_get_payload(call[c].image_hash) = <<>>]_vars
    /\ [](\A c \in Callers :
            ( /\ call[c].pc = "finally"
              /\ call[c].followed # 0
              /\ ~call[c].timed_out
              /\ call[call[c].followed].wrote
              /\ faults = 0
              /\ history \cap {"lock_expired", "entry_expired"} = {} )
               => /\ call[c].result = call[call[c].followed].result
                  /\ call[c].classifier = "none"
                  /\ _garment_type_cache[ProcOf(c)][call[c].image_hash]
                        = call[c].result)

\* a follower is returning the label of the entry its leader wrote: the
\* leader wrote between the follower's read and its look at the lock, and
\* the follower's final read found the entry
C19_Witness ==
    \E c \in Callers :
        /\ call[c].pc = "finally"
        /\ call[c].followed # 0
        /\ call[c].followed # c
        /\ call[call[c].followed].pc = "done"
        /\ call[call[c].followed].wrote
        /\ call[c].proc # call[call[c].followed].proc
        /\ call[c].result = call[call[c].followed].result
        /\ call[c].classifier = "none"
        /\ faults = 0
        /\ history = {}

\* C20: a call that holds the distributed lock invokes the classifier only
\* after its re-read of the cache found nothing: the L1 map first, then a
\* remote GET; when the re-read finds an entry the call takes that entry's
\* label as its result, invokes no classifier and writes nothing to the
\* store; a call that invoked no classifier never issues the remote write;
\* and the call leaves through the release of its lock
C20_LeaderRechecksCache ==
    /\ [][\A c \in Callers :
            LET d == call[c].image_hash
                cached == _garment_type_cache[ProcOf(c)][d]
                payload == _redis_get_payload(d)
            IN
            call[c].redis_lock_acquired =>
                /\ (call[c].pc # "invoke" /\ call'[c].pc = "invoke")
                      => /\ call[c].pc = "get2"
                         /\ call'[c].failed \/ payload = <<>>
                /\ (call[c].pc = "post_lock" /\ call'[c].pc # "post_lock")
                      => IF cached # <<>>
                         THEN /\ call'[c].pc = "finally"
                              /\ call'[c].result = cached
                         ELSE call'[c].pc = "get2"
                /\ ( /\ call[c].pc = "get2"
                     /\ call'[c].pc # "get2"
                     /\ ~call'[c].failed
                     /\ payload # <<>> )
                      => /\ call'[c].pc = "finally"
                         /\ call'[c].result = payload
                         /\ call'[c].classifier = "none"
                         /\ UNCHANGED << store_cache, classifier_calls, remote_writes >>
                /\ (call[c].pc = "finally" /\ call'[c].pc # "finally")
                      => call'[c].pc = "release"]_vars
    /\ [](\A c \in Callers :
            call[c].classifier = "none" => call[c].pc # "set" /\ ~call[c].wrote)

\* a call acquired the lock, found on its remote re-read the entry another
\* call had written, and is releasing the lock with that label as its
\* result, having invoked no classifier and written nothing
C20_Witness ==
    \E c \in Callers :
        /\ call[c].pc = "release"
        /\ call[c].redis_lock_acquired
        /\ store_lock[call[c].image_hash] = c
        /\ call[c].classifier = "none"
        /\ ~call[c].wrote
        /\ call[c].result = store_cache[call[c].image_hash]
        /\ call[c].result \in Labels
        /\ _garment_type_cache[ProcOf(c)][call[c].image_hash] = call[c].result
        /\ classifier_calls[call[c].image_hash] = 1
        /\ remote_writes[call[c].image_hash] = 1

\* C21: _wait_for_redis_payload always returns; a loop test that sees the
\* deadline passed, on entry or after a sleep, makes it return None with no
\* remote operation issued; it goes to sleep only from an EXISTS that found
\* the lock, itself issued only after a GET that found no entry; and no step
\* of it changes the lock key, the value key or the classifier's count
C21_WaitTerminates ==
    /\ \A c \in Callers : <>(call[c].pc = "done")
    /\ [][\A c \in Callers :
            LET d == call[c].image_hash IN
            /\ ( /\ call[c].pc \in {"wait_entry", "wait_sleep"}
                 /\ call'[c].pc # call[c].pc
                 /\ call'[c].deadline = 0 )
                  => /\ call'[c].pc = "mutex_stage"
                     /\ call'[c].result = <<>>
            /\ (call[c].pc # "wait_sleep" /\ call'[c].pc = "wait_sleep")
                  => call[c].pc = "wait_exists" /\ store_lock[d] # 0
            /\ (call[c].pc # "wait_exists" /\ call'[c].pc = "wait_exists")
                  => call[c].pc = "wait_get" /\ _redis_get_payload(d) = <<>>
            /\ call'[c] # call[c]
                  => UNCHANGED << store_lock, store_cache, classifier_calls,
                                  remote_writes >>]_vars

\* one call found the deadline passed and is returning None, another sleeps
\* between two polls, while the lock is held and no entry is stored
C21_Witness ==
    \E c1 \in Callers, c2 \in Callers :
        /\ call[c1].pc = "mutex_stage"
        /\ call[c1].deadline = 0
        /\ ~call[c1].failed
        /\ call[c1].result = <<>>
        /\ call[c2].pc = "wait_sleep"
        /\ call[c2].deadline > 0
        /\ store_lock[call[c2].image_hash] = Leader
        /\ store_cache[call[c2].image_hash] = <<>>

\* C22: under fair scheduling, with every remote operation and classifier
\* call returning or failing, every call that started returns; and no call
\* waits on the distributed lock while it holds a local mutex, nor on a
\* local mutex or the connect lock while it holds the distributed lock
C22_EveryCallReturns ==
    /\ \A c \in Callers : (call[c].pc # "idle") ~> (call[c].pc = "done")
    /\ [](\A c \in Callers :
            /\ call[c].local_lock_acquired
                  => call[c].pc \notin WaitPcs \cup {"acquire", "wait_sleep"}
            /\ call[c].redis_lock_acquired
                  => call[c].pc \notin {"local_wait", "connect_wait"})

\* a call waits on the local mutex of its process, held by a call that is
\* with the classifier
C22_Witness ==
    \E c1 \in Callers, c2 \in Callers :
        /\ call[c1].pc = "local_wait"
        /\ call[c2].pc = "classify"
        /\ call[c2].local_lock_acquired
        /\ call[c1].proc = call[c2].proc

\* C23: in one process at most one call is creating a client, in its
\* handshake or closing its failed candidate; and a call that obtains the
\* connect lock after waiting for it, when the shared handle is set, returns
\* that handle and makes no attempt of its own
C23_OneConnectAtATime ==
    /\ [](\A p \in Procs :
            Cardinality({ c \in Callers : /\ call[c].proc = p
                                          /\ call[c].pc \in {"ping", "ping_close"} }) <= 1)
    /\ [][\A c \in Callers :
            ( /\ call[c].pc = "connect_wait"
              /\ call'[c].pc # "connect_wait"
              /\ _redis_client[ProcOf(c)] # 0 )
               => /\ call'[c].pc = "after_client"
                  /\ call'[c].redis_client = _redis_client[ProcOf(c)]
                  /\ UNCHANGED << _redis_client, _redis_retry_at >>]_vars

\* a call waits on the connect lock of its process while the call that held
\* it has connected and goes on with the handle
C23_Witness ==
    \E c1 \in Callers, c2 \in Callers :
        /\ call[c1].proc = call[c2].proc
        /\ call[c2].pc = "connect_wait"
        /\ call[c1].pc = "get1"
        /\ call[c1].redis_client = c1
        /\ _redis_client[call[c1].proc] = c1


\* C24: a failure report drops the handle and arms the backoff, and
\* every get_redis_client call that starts after the report and before its
\* backoffUntil returns null
C24_NullUntilBackoffEnds ==
    [][\A c \in Callers :
          (call[c].pc = "get_client" /\ call'[c].pc # "get_client"
              /\ WindowOpen(call[c].proc))
          => (call'[c].pc = "after_client" /\ call'[c].redis_client = 0)]_vars

\* what does hold of C24: a failure report drops the handle and arms the backoff; while
\* the backoff is armed every get_redis_client call returns null; the first
\* call once it has run out makes a new attempt (or waits for the one under
\* way); get_redis_client never raises and returns null or the shared handle
C24_NullWhileBackoffArmed ==
    /\ [][\A c \in Callers :
            (call[c].pc = "using" /\ call'[c].pc = "leaving" /\ call'[c].failed)
            => (/\ _redis_client'[call[c].proc] = 0
                /\ _redis_retry_at'[call[c].proc] = "future")]_vars
    /\ [][\A c \in Callers :
            (/\ call[c].pc \in {"get_client", "connect_wait"}
             /\ call'[c].pc # call[c].pc
             /\ _redis_retry_at[call[c].proc] = "future")
            => (call'[c].pc = "after_client" /\ call'[c].redis_client = 0)]_vars
    /\ [][\A c \in Callers :
            (/\ call[c].pc = "get_client"
             /\ call'[c].pc # "get_client"
             /\ _redis_client[call[c].proc] = 0
             /\ _redis_retry_at[call[c].proc] = "past")
            => call'[c].pc \in {"ping", "connect_wait"}]_vars
    /\ [][\A c \in Callers :
            (call[c].pc \in {"get_client", "connect_wait", "ping", "ping_close"}
                /\ call'[c].pc # call[c].pc)
            => (/\ ~call'[c].raised
                /\ call'[c].pc \in {"after_client", "connect_wait", "ping", "ping_close"}
                /\ call'[c].pc = "after_client"
                     => call'[c].redis_client \in {0, _redis_client'[call[c].proc]})]_vars

\* a call got null during the backoff another call's report armed
C24_Witness ==
    \E c \in Callers, b \in Callers :
        /\ b # c
        /\ call[b].armed /\ call[b].proc = call[c].proc
        /\ _redis_retry_at[call[c].proc] = "future"
        /\ call[c].pc = "after_client" /\ call[c].redis_client = 0
        /\ call[c].round > 0

\* C27: a failure reported by a caller whose handle is an older one, already
\* replaced by a newer shared handle, leaves the newer handle and the backoff
\* as they were
C27_StaleReportSparesNewHandle ==
    [][\A c \in Callers :
          (/\ call[c].pc = "using" /\ call'[c].pc = "leaving" /\ call'[c].failed
           /\ _redis_client[call[c].proc] # 0
           /\ call[c].redis_client # _redis_client[call[c].proc])
          => (/\ _redis_client'[call[c].proc] = _redis_client[call[c].proc]
              /\ _redis_retry_at'[call[c].proc] = _redis_retry_at[call[c].proc])]_vars

\* the calls of process p that have invoked the classifier
Invokers(p) ==
    {c \in Callers : /\ call[c].proc = p
                     /\ call[c].pc = "classify" \/ call[c].classifier # "none"}

\* C25: in a process without a store, with a positive entry TTL and nothing
\* expiring, the calls for one digest invoke the classifier at most once; the
\* digest's mutex, once created, stays; at most one call of a process is
\* between acquire and release; and a call that finds the L1 entry after
\* acquiring returns it without invoking the classifier
C25_LocalSingleflight ==
    /\ [](\A p \in Procs :
            (REDIS_URL[p] = "" /\ GARMENT_TYPE_TTL_SECONDS > 0 /\ timeouts = 0)
                => Cardinality(Invokers(p)) <= 1)
    /\ [](\A p \in Procs :
            Cardinality({c \in Callers : call[c].proc = p
                                         /\ call[c].local_lock_acquired}) <= 1)
    /\ [][\A p \in Procs, d \in Digests :
            _local_singleflight_locks[p][d].created
                => _local_singleflight_locks'[p][d].created]_vars
    /\ [][\A c \in Callers :
            (/\ call[c].pc = "post_lock" /\ call'[c].pc # "post_lock"
             /\ _garment_type_cache[call[c].proc][call[c].image_hash] # <<>>)
            => (/\ call'[c].pc = "finally"
                /\ call'[c].result = _garment_type_cache[call[c].proc][call[c].image_hash]
                /\ UNCHANGED classifier_calls)]_vars

\* two concurrent calls of a process without a store: the first classified,
\* the second waited for the mutex and found the first one's L1 entry
C25_Witness ==
    \E c1, c2 \in Callers :
        /\ c1 # c2 /\ call[c1].proc = call[c2].proc
        /\ REDIS_URL[call[c1].proc] = "" /\ GARMENT_TYPE_TTL_SECONDS > 0 /\ timeouts = 0
        /\ call[c1].pc = "done" /\ call[c1].classifier # "none"
        /\ call[c2].pc = "finally" /\ call[c2].local_lock_acquired
        /\ call[c2].classifier = "none"
        /\ call[c2].result = call[c1].result

\* C26: no call is on the follower path, or past it without the lock flag,
\* while the lock key stores its own token
C26_NoSelfFollow ==
    \A c \in Callers :
        (InFlight(c) /\ store_lock[call[c].image_hash] = c)
            => (call[c].redis_lock_acquired \/ call[c].pc = "acquire")

\* call c gets its label from the classifier in this step
Computes(c) == call[c].classifier = "none" /\ call'[c].classifier # "none"

\* C29: whenever a call computes a label through the classifier, the step
\* that ends the computation leaves the label in the L1 map of its process
C29_L1WrittenAlways ==
    [][\A c \in Callers :
          Computes(c)
          => _garment_type_cache'[call[c].proc][call[c].image_hash]
                = call'[c].garment_type]_vars

\* C29 (amended): with a positive entry TTL the computed label is in the L1
\* map when the computation ends, with or without a remote handle, and a
\* failing or succeeding remote write leaves it there; with a TTL of zero the
\* L1 map is left as it was
C29_L1WrittenWhenTtlPositive ==
    /\ [][\A c \in Callers :
            Computes(c)
            => IF GARMENT_TYPE_TTL_SECONDS > 0
               THEN _garment_type_cache'[call[c].proc][call[c].image_hash]
                        = call'[c].garment_type
               ELSE UNCHANGED _garment_type_cache]_vars
    /\ [][\A c \in Callers :
            (call[c].pc = "set" /\ call'[c].pc # "set")
            => UNCHANGED _garment_type_cache]_vars

\* a call whose remote write failed returns with its label in the L1 map
C29_Witness ==
    \E c \in Callers :
        /\ call[c].pc = "finally"
        /\ call[c].classifier # "none"
        /\ call[c].failed
        /\ call[c].redis_lock_acquired
        /\ GARMENT_TYPE_TTL_SECONDS > 0
        /\ _garment_type_cache[call[c].proc][call[c].image_hash] = call[c].garment_type

\* a completed call b started while the entry of a completed call a, whose
\* classifier had failed, was stored where b looks
AfterFailed(a, b) ==
    /\ a # b
    /\ call[a].pc = "done" /\ call[a].classifier = "raised"
    /\ call[b].pc = "done" /\ call[a].result \in call[b].owed

StillForeign(d) == remote_writes[d] = 0 /\ timeouts = 0 /\ StoredRaw # PyNone

\* C30: when the first read of a call is answered with a stored value that is
\* not JSON, not an object, has no string "type" or a "type" that is no
\* label, the decoder returns None and the call goes on to the locking stage
\* with its handle, the shared handle and the backoff as they were: no
\* failure is recorded and nothing is put in the L1 map
C30_ForeignValueIsMiss ==
    [][\A c \in Callers :
          (/\ call[c].pc = "get1" /\ call'[c].pc # "get1" /\ ~call'[c].failed
           /\ StillForeign(call[c].image_hash))
          => (/\ _decode_cache_payload(StoredRaw) = PyNone
              /\ call'[c].pc = "lock_stage"
              /\ call[c].redis_client # 0
              /\ call'[c].redis_client = call[c].redis_client
              /\ UNCHANGED << supervisor, _garment_type_cache, store, faults >>)]_vars

\* a call read the foreign value and stands at the locking stage, its handle
\* being the shared one
C30_Witness ==
    \E c \in Callers :
        /\ call[c].pc = "lock_stage"
        /\ StillForeign(call[c].image_hash)
        /\ store_cache[call[c].image_hash] # <<>>
        /\ faults = 0
        /\ call[c].redis_client # 0
        /\ call[c].redis_client = _redis_client[call[c].proc]
        /\ _redis_retry_at[call[c].proc] = "None"

\* C31: with the feature flag off and no valid override, the call returns
\* "full" in the step it starts in: nothing but the record of the call
\* changes (L1 map, shared handle, backoff, connect lock, store, mutexes,
\* classifier count) and the call holds no handle and no lock
C31_DisabledReturnsDefault ==
    [][\A c \in Callers :
          (/\ call[c].pc = "idle" /\ call'[c].pc # "idle"
           /\ ~GARMENT_TYPE_CLASSIFY
           /\ NormalizedOverride(call'[c].override) = <<>>)
          => (/\ call'[c].pc = "done"
              /\ call'[c].result = FULL
              /\ ~call'[c].raised
              /\ call'[c].classifier = "none"
              /\ call'[c].redis_client = 0
              /\ ~call'[c].redis_lock_acquired
              /\ ~call'[c].local_lock_acquired
              /\ UNCHANGED globals)]_vars

\* a call given an override that is no label returned "full" with the flag
\* off, while the store is configured for its process
C31_Witness ==
    \E c \in Callers :
        /\ ~GARMENT_TYPE_CLASSIFY
        /\ call[c].pc = "done"
        /\ call[c].override # <<>>
        /\ NormalizedOverride(call[c].override) = <<>>
        /\ call[c].result = FULL
        /\ REDIS_URL[call[c].proc] # ""
        /\ GARMENT_TYPE_TTL_SECONDS > 0

\* C35: in every state a process can be suspended in, a stored handle comes
\* with a cleared backoff and an armed backoff with no stored handle; the
\* step that installs a handle clears the backoff and the step that arms the
\* backoff leaves no handle
C35_HandleXorBackoff ==
    /\ [](\A p \in Procs :
            /\ _redis_client[p] # 0 => _redis_retry_at[p] = "None"
            /\ _redis_retry_at[p] = "future" => _redis_client[p] = 0)
    /\ [][\A p \in Procs :
            /\ (_redis_client[p] = 0 /\ _redis_client'[p] # 0)
                  => _redis_retry_at'[p] = "None"
            /\ (_redis_retry_at[p] # "future" /\ _redis_retry_at'[p] = "future")
                  => _redis_client'[p] = 0]_vars

\* a process holds a handle again, its backoff cleared, after a reported
\* failure had armed the backoff and the backoff had run out
C35_Witness ==
    \E p \in Procs, b \in Callers :
        /\ call[b].proc = p /\ call[b].used # 0
        /\ timeouts = 1
        /\ _redis_client[p] # 0
        /\ _redis_retry_at[p] = "None"

\* C36: a remote operation is attempted at most Attempts times; another
\* attempt is made only after a failed one; an operation that ends before
\* its last attempt ends with a reply (a miss included): no failure is
\* recorded and the call goes on without counting a fault
C36_RetryOnlyOnError ==
    /\ [](\A c \in Callers : call[c].attempt + 1 <= Attempts)
    /\ [][\A c \in Callers :
            (call[c].pc \in RemotePcs /\ call'[c].pc = call[c].pc
                /\ call'[c].attempt # call[c].attempt)
            => (/\ call'[c].attempt = call[c].attempt + 1
                /\ call[c].attempt = 0 => faults' = faults + 1)]_vars
    /\ [][\A c \in Callers :
            (call[c].pc \in RemotePcs /\ call'[c].pc # call[c].pc
                /\ call[c].attempt + 1 < Attempts)
            => (/\ call'[c].failed => call[c].failed
                /\ faults' = faults
                /\ UNCHANGED << _redis_client, _redis_retry_at >>)]_vars

\* the first attempt of a call's GET failed and the second was answered with
\* a miss: the call stands at the locking stage with its handle
C36_Witness ==
    \E c \in Callers :
        /\ call[c].pc = "lock_stage"
        /\ call[c].redis_client # 0
        /\ ~call[c].failed
        /\ faults = 1
        /\ \A b \in Callers : b # c => call[b].pc = "idle"

\* the listing asked for is in the table and belongs to the asking user
Owned(listing_id, user_id) ==
    /\ listing_id # "" /\ user_id # ""
    /\ listing_id \in DOMAIN listings
    /\ listings[listing_id].user_id = user_id

\* C32: resolve_listing_context returns a context exactly when the listing
\* exists and is owned by the asking user, and the context is that listing's;
\* otherwise it raises when required (400 without a listing id, else 404) and
\* returns None when not required
C32_ContextOnlyForOwner ==
    context.op = "resolve" =>
        LET o == context.outcome IN
        IF Owned(context.listing_id, context.user_id)
        THEN /\ o.kind = "returned"
             /\ o.value.kind = "ListingContext"
             /\ o.value.id = context.listing_id
             /\ o.value.user_id = context.user_id
             /\ o.value.source_s3_key = listings[context.listing_id].source_s3_key
        ELSE IF context.required
        THEN /\ o.kind = "raised"
             /\ o.status_code = IF context.listing_id = "" THEN 400 ELSE 404
        ELSE o.kind = "returned" /\ o.value.kind = "None"

\* a user asked for another user's listing, required, and got 404
C32_Witness ==
    /\ context.op = "resolve"
    /\ context.required
    /\ context.listing_id \in DOMAIN listings
    /\ context.user_id # ""
    /\ listings[context.listing_id].user_id # context.user_id
    /\ context.outcome.kind = "raised"
    /\ context.outcome.status_code = 404

-----------------------------------------------------------------------------
(* C33: normalize_edit_inputs                                               *)

\* the allowed poses among the given ones, trimmed and lowercased
RECURSIVE ValidPoses(_)
ValidPoses(given) ==
    IF given = <<>> THEN <<>>
    ELSE
        LET v == Lower(Strip(Head(given))) IN
        IF v \in Elements(allowed_poses) THEN << v >> \o ValidPoses(Tail(given))
        ELSE ValidPoses(Tail(given))

\* a sequence without its repetitions, in order of first occurrence
RECURSIVE FirstOccurrences(_)
FirstOccurrences(seq) ==
    IF seq = <<>> THEN <<>>
    ELSE
        LET front == FirstOccurrences(SubSeq(seq, 1, Len(seq) - 1))
            last == seq[Len(seq)]
        IN IF last \in Elements(front) THEN front ELSE Append(front, last)

IsPrefix(a, b) == Len(a) <= Len(b) /\ a = SubSeq(b, 1, Len(a))

GivenValid == FirstOccurrences(ValidPoses(PoseIterable(inputs.poses)))

GenderAndEnvironmentNormalized ==
    LET g == Lower(Strip(inputs.gender))
        e == Lower(Strip(inputs.environment))
    IN
    /\ inputs.result.gender = IF g \in Elements(Genders) THEN g ELSE WOMAN
    /\ inputs.result.environment = IF e \in Elements(Environments) THEN e ELSE STUDIO

PrimaryPoseIsFirst ==
    inputs.result.primary_pose =
        IF inputs.result.poses # <<>> THEN inputs.result.poses[1] ELSE inputs.default_pose

\* C33: the normalised poses are allowed values (trimmed, lowercased) without
\* duplicates, in order of first occurrence, at most max_poses of them; when
\* no given pose is valid the list is [default_pose] if a default was given
\* and empty otherwise; primary_pose is the first entry, else the default,
\* else empty; an unrecognised gender becomes woman, an unrecognised
\* environment studio.
C33_PosesNormalized ==
    inputs.op = "normalize" =>
        /\ GivenValid # <<>> =>
                /\ inputs.result.poses # <<>>
                /\ IsPrefix(inputs.result.poses, GivenValid)
                /\ Len(inputs.result.poses) <= inputs.max_poses
        /\ GivenValid = <<>> =>
                inputs.result.poses =
                    IF inputs.default_pose # <<>> THEN << inputs.default_pose >> ELSE <<>>
        /\ PrimaryPoseIsFirst
        /\ GenderAndEnvironmentNormalized

\* what does hold of C33: the same for every max_poses of at least one, where
\* the list is exactly the first max_poses valid poses
C33_PosesNormalizedWhenMaxPositive ==
    inputs.op = "normalize" /\ inputs.max_poses >= 1 =>
        /\ GivenValid # <<>> =>
                inputs.result.poses =
                    SubSeq(GivenValid, 1,
                           IF Len(GivenValid) < inputs.max_poses THEN Len(GivenValid)
                           ELSE inputs.max_poses)
        /\ GivenValid = <<>> =>
                inputs.result.poses =
                    IF inputs.default_pose # <<>> THEN << inputs.default_pose >> ELSE <<>>
        /\ PrimaryPoseIsFirst
        /\ GenderAndEnvironmentNormalized

\* a valid pose was given with max_poses = 0 and the list has one entry
C33_OnePoseForMaxZero ==
    /\ inputs.op = "normalize"
    /\ inputs.max_poses = 0
    /\ inputs.poses = [kind |-> "list", list |-> << SITTING >>]
    /\ inputs.result.poses = << SITTING >>

-----------------------------------------------------------------------------
(* C34: consume_quota_with_session                                          *)

\* the counter of the subscription's period in a usage table, 0 without one
UsedIn(table, sub) ==
    IF sub # PyNone /\ sub.current_period_start # PyNone
            /\ sub.current_period_start.t \in DOMAIN table
    THEN table[sub.current_period_start.t].used
    ELSE 0

PlanAllowance == IF plan # PyNone THEN Max(plan.allowance, 0) ELSE 0

\* why a call for amount may raise, told from the committed tables
MayRaise(amount) ==
    \/ subscription = PyNone
    \/ subscription.status \notin { "active", "ACTIVE" }
    \/ subscription.current_period_start = PyNone
    \/ subscription.plan_id = "" \/ plan = PyNone
    \/ Max(PlanAllowance - UsedIn(usage, subscription), 0) < amount

RaisedOrAdded ==
    IF summary'.outcome = "raised"
    THEN usage' = usage /\ MayRaise(summary'.amount)
    ELSE UsedIn(usage', subscription) = UsedIn(usage, subscription) + summary'.amount

\* C34: a call of consume_quota_with_session with amount > 0 either raises
\* QuotaError and leaves the usage counter as it was, or increases used by
\* exactly amount.
C34_RaisesOrAddsAmount ==
    [][ summary'.op = "consume" /\ summary'.amount > 0 => RaisedOrAdded ]_vars

\* the record of the subscription's period exists and its period has ended
CounterExpired ==
    /\ subscription # PyNone
    /\ subscription.current_period_start # PyNone
    /\ subscription.current_period_start.t \in DOMAIN usage
    /\ subscription.current_period_end # PyNone
    /\ subscription.current_period_end.t <= now

\* what does hold of C34: the same for every call made before the end of the
\* subscription's period
C34_RaisesOrAddsAmountInPeriod ==
    [][ summary'.op = "consume" /\ summary'.amount > 0 /\ ~CounterExpired
            => RaisedOrAdded ]_vars

\* what does hold of C34: used never exceeds the allowance of the plan
C34_UsedWithinAllowance ==
    \A t \in DOMAIN usage : usage[t].used <= PlanAllowance

\* a call returned after adding its amount to a counter that was not zero
C34_AddedToUsedCounter ==
    /\ summary.op = "consume"
    /\ summary.outcome = "returned"
    /\ summary.amount > 0
    /\ summary.summary.used > summary.amount

=========================================================================
